---- MODULE Spec2Model ----
(***************************************************************************)
(* Concurrent task scheduling and resource-pool management of the scraper  *)
(* backend: ResourcePool (utils/concurrency.py), BrowserManager            *)
(* (scraper/browser/manager.py), TaskScheduler (scraper/scheduler.py) and  *)
(* RateLimitMiddleware (scraper/middleware/rate_limit.py).                 *)
(*                                                                         *)
(* Every coroutine is cut at its suspension points (await): the code       *)
(* between two suspension points runs atomically on the asyncio event loop *)
(* and is one action here.                                                 *)
(*                                                                         *)
(* Time is a discrete clock `now`; one unit stands for 30 seconds.           *)
(***************************************************************************)
EXTENDS Integers, Sequences, FiniteSets, TLC

\* ------------------------------------------------------------------ bounds
\* max_size the pool is constructed with
PoolSize == 1
\* number of concurrent callers of the pool in PoolSpec
NumProcs == 3
\* number of concurrent acquire calls in the starvation scenario
NumCallers == 5
\* task ids, execute_task invocations and schedule_task callers in SchedSpec
NumTasks == 2
NumExecs == 2
NumSchedulers == 1
\* schedule_task callers that compete for one task id
NumDupSchedulers == 2
\* execute_task invocations for one task id in RaceSpec
NumRaceExecs == 3
\* the configured max_instances
MaxInstances == 1
\* rate-limit checks in flight at once, bucket keys, largest configured
\* rate limit and window, and the number of checks made in RateSpec
NumCheckers == 2
NumKeys == 1
MaxLimit == 2
MaxWindow == 1
MaxChecks == 3
\* proxy urls the upstream provider hands out, the pool_size of the
\* ProxyService, and the success and failure reports counted per proxy
NumProxies == 2
ProxyPoolSize == 2
MaxReports == 1
\* largest max_retries a wrapper of utils/retry.py is built with, and the
\* number of distinct results the wrapped function can return
MaxRetries == 2
\* task ids handed to a TaskPool
NumPoolTasks == 2
NumResults == 2
\* last value of the clock
MaxTime == 2

\* ------------------------------------------------------- program constants
\* utils/concurrency.py DEFAULT_TIMEOUT = 30.0 seconds = 1 clock unit
DEFAULT_TIMEOUT == 1
\* tests/unit/test_utils.py ResourcePool(max_size=2): the starvation scenario
LivePoolSize == 2
\* scraper/scheduler.py CIRCUIT_BREAKER_CONFIG["failure_threshold"]
FAILURE_THRESHOLD == 5
\* scraper/scheduler.py tenacity.stop_after_attempt(3)
STOP_AFTER_ATTEMPT == 3
\* wait_exponential(multiplier=1, min=4, max=10) of the same decorator, seconds
WAIT_MULTIPLIER == 1
WAIT_MIN == 4
WAIT_MAX == 10
\* scraper/middleware/rate_limit.py: requests per window, window (60 seconds
\* = 2 clock units), burst allowance in percent (0.05), cap of the backoff
\* (300 seconds = 10 clock units)
DEFAULT_RATE_LIMIT == 1000
DEFAULT_WINDOW_SECONDS == 2
BURST_LIMIT_MULTIPLIER == 5
MAX_BACKOFF_SECONDS == 10
\* services/proxy.py: health score a proxy needs, in percent (0.95); the
\* failure_threshold its breaker gets (0.85: reached by the first recorded
\* failure); max_retries of the AsyncRetry around get_proxy
PROXY_SUCCESS_THRESHOLD == 95
PROXY_CIRCUIT_BREAKER_THRESHOLD == 1
GET_PROXY_MAX_RETRIES == 3
\* recovery_timeout of the breaker of a proxy: 300 s, in units of the clock
PROXY_RECOVERY_TIMEOUT == 10

Max(a, b) == IF a > b THEN a ELSE b
Min(a, b) == IF a < b THEN a ELSE b

\* every execution context that can call into the pool
Callers == 1..Max(Max(NumProcs, NumCallers), Max(NumExecs, NumRaceExecs))
\* the callers that act in PoolSpec
Procs == 1..NumProcs
\* the callers of the starvation scenario
LiveCallers == 1..NumCallers

\* resource_id values: None (0), an id of the caller's own ("test1", ...:
\* 100 + caller) and str(id(resource)) (the number of the resource)
NoneId == 0
OwnId(p) == 100 + p
CallerIds(p) == {NoneId, OwnId(p)}

VARIABLES
  \* ---- ResourcePool
  semValue,    \* _semaphore._value
  semWaiters,  \* _semaphore._waiters: callers blocked in acquire, FIFO
  semGranted,  \* waiters whose future was resolved and that did not run yet
  resources,   \* _resources: the idle set
  in_use,      \* _in_use: resource_id -> [resource, last_activity]
  ppc,         \* position of each caller in acquire / release
  prid,        \* the resource_id argument of the caller's acquire
  held,        \* the resource object acquire returned to the caller (0: none)
  relRet,      \* return value of the caller's last release
  now,         \* time.time()
  \* ---- BrowserManager
  active_browsers, \* _active_browsers: the resources registered under str(id(resource))
  brRet,           \* return value of release_browser in each execution
  brCleanups,      \* calls of BrowserManager.cleanup made by the scheduler
  brHealth,        \* the last recovery of the health loop: the browser, and what release_browser returned
  \* ---- TaskScheduler
  task_status, \* _active_tasks[id]["status"], "absent" when the id is not a key
  task_order,  \* the keys of _active_tasks in insertion order
  task_locks,  \* _task_locks: task id -> lock object (0: no entry)
  lockOwner,   \* asyncio.Lock objects: the context holding the lock (0: free)
  lockQueue,   \* asyncio.Lock objects: the waiters, FIFO
  jobs,        \* the jobs in the AsyncIOScheduler's job store
  schedState,  \* state of the AsyncIOScheduler
  cbFailures,  \* _circuit_breaker: recorded failures
  cbState,     \* _circuit_breaker.current_state
  epc,         \* position of each execute_task invocation
  etask,       \* its task_id argument
  eattempt,    \* tenacity's attempt number
  elock,       \* the lock object it waits for or holds
  edetached,   \* its task_data dict is no longer the one in _active_tasks
  eret,        \* how the invocation ended
  spc,         \* position of each schedule_task call
  stask,       \* its task_id argument
  slock,       \* the lock object it waits for
  sret,        \* result of the last schedule_task call of the caller
  lret,        \* the last pause_task, resume_task or cancel_task call and how it ended
  cpc,         \* position of cleanup()
  ctodo,       \* the task ids cleanup() still has to visit
  clock,       \* the lock object cleanup() waits for
  cret,        \* how the last cleanup() ended
  \* ---- RateLimitMiddleware
  rate_limits,       \* _rate_limits[domain]
  window_seconds,    \* _window_seconds[domain]
  burst_multipliers, \* _burst_multipliers[domain], in percent
  redis_value,       \* the counter stored under each key (0: no such key)
  redis_expire,      \* the time at which the key expires
  rate_limit_hits,   \* _metrics["rate_limit_hits"]
  rate_limit_misses, \* _metrics["rate_limit_misses"]
  rate_limit_errors, \* _metrics["rate_limit_errors"]
  rpc,         \* position of each check_rate_limit call
  rkey,        \* the key it checks (0: no call in progress)
  rresult,     \* what the store answered
  rret,        \* the tuple the last check_rate_limit call that ended returned
  \* ---- ProxyService
  proxy_metrics,    \* _proxy_metrics: proxy url -> ProxyMetrics
  circuit_breakers, \* _circuit_breakers: proxy url -> failures its breaker counted
  proxy_order,      \* the keys of the two dicts in insertion order
  pool_lock,        \* _pool_lock: who holds it
  hlist,            \* the proxies the health-check pass still has to probe
  contexts,         \* proxies with a ProxyContext that has not exited yet
  gattempt,         \* AsyncRetry's attempt number of the get_proxy call in progress
  gret,             \* what the last get_proxy call returned
  tripped,          \* proxies whose breaker opened in report_failure
  report_cap,       \* the number of reports per proxy a behaviour counts up to
  \* ---- utils/retry.py: one call of a wrapper built by retry() or AsyncRetry
  wkind,            \* "sync" (retry) or "async" (AsyncRetry)
  max_retries,      \* max_retries the decorator was built with
  exceptions,       \* the exception classes its except clause catches
  backoff_factor,   \* backoff_factor the decorator was built with
  attempt,          \* the loop variable of the wrapper
  last_exception,   \* the wrapper's local last_exception
  calls,            \* the outcomes of the invocations of func, in order
  wpc,              \* where the wrapper call is
  wret,             \* how the wrapper call ended
  \* ---- TaskPool (utils/concurrency.py) around the ResourcePool above
  task_metadata,    \* _task_metadata: the resource recorded for a task id, 0 without record
  tpc,              \* where each caller's TaskPool.acquire call is
  ttask,            \* the task id it was called with
  tret              \* what the caller's last TaskPool call returned

poolVars == <<semValue, semWaiters, semGranted, resources, in_use, ppc, prid, held, relRet>>
browserVars == <<active_browsers, brRet, brCleanups, brHealth>>
taskVars == <<task_status, task_order, task_locks, lockOwner, lockQueue, jobs, schedState>>
breakerVars == <<cbFailures, cbState>>
execVars == <<epc, etask, eattempt, elock, edetached, eret>>
callVars == <<spc, stask, slock, sret, lret>>
cleanupVars == <<cpc, ctodo, clock, cret>>
schedVars == <<browserVars, taskVars, breakerVars, execVars, callVars, cleanupVars>>
configVars == <<rate_limits, window_seconds, burst_multipliers>>
storeVars == <<redis_value, redis_expire>>
metricVars == <<rate_limit_hits, rate_limit_misses, rate_limit_errors>>
checkVars == <<rpc, rkey, rresult, rret>>
rateVars == <<configVars, storeVars, metricVars, checkVars>>
proxyVars == <<proxy_metrics, circuit_breakers, proxy_order, pool_lock, hlist, contexts, gattempt, gret, tripped, report_cap>>
retryVars == <<wkind, max_retries, exceptions, backoff_factor, attempt, last_exception, calls, wpc, wret>>
taskPoolVars == <<task_metadata, tpc, ttask, tret>>
vars == <<poolVars, now, schedVars, rateVars, proxyVars, retryVars, taskPoolVars>>

\* ---------------------------------------------------------------- helpers
Range(f) == {f[k] : k \in DOMAIN f}

SeqRemove(s, x) == SelectSeq(s, LAMBDA y : y # x)

\* resource objects that are still referenced somewhere
LiveResources == resources \cup {held[p] : p \in Callers} \cup {in_use[k].resource : k \in DOMAIN in_use}

\* _create_resource: a new object(), distinct from every object still alive
CreateResource == CHOOSE r \in 1..(Cardinality(LiveResources) + 1) : r \notin LiveResources

\* _validate_resource: the base class accepts every resource
ValidateResource(r) == TRUE

\* ------------------------------------------------------ asyncio.Semaphore
SemState == [value |-> semValue, waiters |-> semWaiters, granted |-> semGranted]

\* Semaphore.locked()
SemLocked(s) == s.value = 0 \/ s.waiters # <<>> \/ s.granted # {}

\* a wake-up that gets lost
SemWakeUpNextLost(s) == s

\* Semaphore._wake_up_next(): hand one unit to the first pending waiter
SemWakeUpNext(s) ==
  IF s.waiters # <<>>
  THEN [value |-> s.value - 1, waiters |-> Tail(s.waiters), granted |-> s.granted \cup {Head(s.waiters)}]
  ELSE s

\* Semaphore.release(): value += 1, then wake the next waiter
SemRelease(s) == SemWakeUpNext([s EXCEPT !.value = @ + 1])

RECURSIVE SemReleaseN(_, _)
SemReleaseN(s, n) == IF n = 0 THEN s ELSE SemReleaseN(SemRelease(s), n - 1)

SetSem(s) == semValue' = s.value /\ semWaiters' = s.waiters /\ semGranted' = s.granted

\* ------------------------------------------------------------ ResourcePool
\* ResourcePool.__init__
PoolInit ==
  /\ semValue = PoolSize
  /\ semWaiters = <<>>
  /\ semGranted = {}
  /\ resources = {}
  /\ in_use = <<>>
  /\ ppc = [p \in Callers |-> "idle"]
  /\ prid = [p \in Callers |-> NoneId]
  /\ held = [p \in Callers |-> 0]
  /\ relRet = [p \in Callers |-> TRUE]

\* acquire(timeout, resource_id) is called: the semaphore task is created
AcquireCall(p, rid) ==
  /\ ppc[p] = "idle"
  /\ ppc' = [ppc EXCEPT ![p] = "start"]
  /\ prid' = [prid EXCEPT ![p] = rid]
  /\ UNCHANGED <<semValue, semWaiters, semGranted, resources, in_use, held, relRet>>

\* the semaphore task runs Semaphore.acquire(): takes a unit or queues
AcquireSemaphore(p) ==
  /\ ppc[p] = "start"
  /\ IF SemLocked(SemState)
     THEN /\ semWaiters' = Append(semWaiters, p)
          /\ ppc' = [ppc EXCEPT ![p] = "waiting"]
          /\ UNCHANGED <<semValue, semGranted>>
     ELSE /\ semValue' = semValue - 1
          /\ ppc' = [ppc EXCEPT ![p] = "acquired"]
          /\ UNCHANGED <<semWaiters, semGranted>>
  /\ UNCHANGED <<resources, in_use, prid, held, relRet>>

\* a woken waiter resumes inside Semaphore.acquire()
AcquireResume(p) ==
  /\ ppc[p] = "waiting"
  /\ p \in semGranted
  /\ LET s == [SemState EXCEPT !.granted = @ \ {p}]
     IN SetSem(IF s.value > 0 THEN SemWakeUpNext(s) ELSE s)
  /\ ppc' = [ppc EXCEPT ![p] = "acquired"]
  /\ UNCHANGED <<resources, in_use, prid, held, relRet>>

\* wait_for gives up: the semaphore task is cancelled, TimeoutError is raised
\* inside the outer try, and the except clause releases the semaphore
AcquireTimeoutSem(p) ==
  LET cancelled == IF p \in semGranted
                   THEN SemRelease([SemState EXCEPT !.granted = @ \ {p}])
                   ELSE [SemState EXCEPT !.waiters = SeqRemove(@, p)]
  IN SemRelease(cancelled)

AcquireTimeout(p) ==
  /\ ppc[p] = "waiting"
  /\ SetSem(AcquireTimeoutSem(p))
  /\ ppc' = [ppc EXCEPT ![p] = "timedout"]
  /\ UNCHANGED <<resources, in_use, prid, held, relRet>>

\* acquire continues after the semaphore: get or create, mark in use, return
AcquireFinish(p) ==
  /\ ppc[p] = "acquired"
  /\ \E r \in (IF resources # {} THEN resources ELSE {CreateResource}) :
       /\ resources' = resources \ {r}
       /\ in_use' = [k \in DOMAIN in_use \cup {prid[p]} |->
                       IF k = prid[p] THEN [resource |-> r, last_activity |-> now]
                       ELSE in_use[k]]
       /\ held' = [held EXCEPT ![p] = r]
  /\ ppc' = [ppc EXCEPT ![p] = "holding"]
  /\ UNCHANGED <<semValue, semWaiters, semGranted, prid, relRet>>

\* the except clause that keeps the slot
CreateFailedSemKept(s) == s

\* the except clause of acquire after the semaphore was taken:
\* self._semaphore.release()
CreateFailedSem(s) == SemRelease(s)

\* acquire continues after the semaphore with an empty idle set, and
\* _create_resource raises: the except clause releases and re-raises
AcquireCreateFails(p) ==
  /\ ppc[p] = "acquired"
  /\ resources = {}
  /\ SetSem(CreateFailedSem(SemState))
  /\ ppc' = [ppc EXCEPT ![p] = "failed"]
  /\ UNCHANGED <<resources, in_use, prid, held, relRet>>

\* release(resource, resource_id): the return value
ReleaseRet(rid) == rid \in DOMAIN in_use

\* release that does not look the id up first
ReleaseEffectUnchecked(res, rid) ==
  /\ in_use' = [k \in DOMAIN in_use \ {rid} |-> in_use[k]]
  /\ resources' = resources \cup {res}
  /\ SetSem(SemRelease(SemState))

\* release(resource, resource_id): the effect on the pool
ReleaseEffect(res, rid) ==
  IF rid \in DOMAIN in_use
  THEN /\ in_use' = [k \in DOMAIN in_use \ {rid} |-> in_use[k]]
       /\ resources' = IF ValidateResource(res) THEN resources \cup {res} ELSE resources
       /\ SetSem(SemRelease(SemState))
  ELSE UNCHANGED <<in_use, resources, semValue, semWaiters, semGranted>>

\* a caller releases what it acquired; it may call release a second time
Release(p) ==
  /\ ppc[p] \in {"holding", "released"}
  /\ ReleaseEffect(held[p], prid[p])
  /\ relRet' = [relRet EXCEPT ![p] = ReleaseRet(prid[p])]
  /\ ppc' = [ppc EXCEPT ![p] = IF ppc[p] = "holding" THEN "released" ELSE "done"]
  /\ UNCHANGED <<prid, held>>

\* release(resource, resource_id) called with arguments of the caller's choice
ReleaseAny(res, rid) ==
  /\ ReleaseEffect(res, rid)
  /\ UNCHANGED <<ppc, prid, held, relRet>>

\* _periodic_cleanup: one pass of the loop body
StaleResources == {rid \in DOMAIN in_use : now - in_use[rid].last_activity > DEFAULT_TIMEOUT}

PeriodicCleanup ==
  /\ StaleResources # {}
  /\ in_use' = [k \in DOMAIN in_use \ StaleResources |-> in_use[k]]
  /\ resources' = resources \cup {in_use[rid].resource : rid \in StaleResources}
  /\ SetSem(SemReleaseN(SemState, Cardinality(StaleResources)))
  /\ UNCHANGED <<ppc, prid, held, relRet>>

Tick ==
  /\ now < MaxTime
  /\ now' = now + 1

\* ------------------------------------------------------------ TaskScheduler
Tasks == 1..NumTasks
\* every execute_task invocation; the ones that act in SchedSpec and in RaceSpec
Execs == 1..Max(NumExecs, NumRaceExecs)
SchedExecs == 1..NumExecs
RaceExecs == 1..NumRaceExecs
\* the task id the executions of RaceSpec compete for
RaceTasks == {1}
Schedulers == 1..NumSchedulers
DupSchedulers == 1..NumDupSchedulers
AllSchedulers == 1..Max(NumSchedulers, NumDupSchedulers)

\* the contexts that take task locks: executions, schedule_task calls, cleanup
SchedulerCtx(c) == 100 + c
CleanupCtx == 200

\* asyncio.Lock objects; a lock nobody refers to any more is garbage
LockIds == 1..(NumTasks + Max(NumExecs, NumRaceExecs))
LockReferenced(l) == lockOwner[l] # 0 \/ lockQueue[l] # <<>> \/ \E t \in Tasks : task_locks[t] = l
NewLock == CHOOSE l \in LockIds : ~LockReferenced(l)

\* Lock.locked() or waiters pending: acquire() has to queue
LockBusy(l) == lockOwner[l] # 0 \/ lockQueue[l] # <<>>

\* Lock.release(): the first waiter gets the lock
LockReleased(owner, queue, l) ==
  IF queue[l] # <<>>
  THEN [owner |-> [owner EXCEPT ![l] = Head(queue[l])], queue |-> [queue EXCEPT ![l] = Tail(@)]]
  ELSE [owner |-> [owner EXCEPT ![l] = 0], queue |-> queue]

\* TaskScheduler.__init__ with BrowserManager.__init__
SchedInit ==
  /\ active_browsers = {}
  /\ brRet = [e \in Execs |-> TRUE]
  /\ brCleanups = 0
  /\ brHealth = [browser |-> 0, released |-> FALSE]
  /\ task_status = [t \in Tasks |-> "absent"]
  /\ task_order = <<>>
  /\ task_locks = [t \in Tasks |-> 0]
  /\ lockOwner = [l \in LockIds |-> 0]
  /\ lockQueue = [l \in LockIds |-> <<>>]
  /\ jobs = {}
  /\ schedState = "running"
  /\ cbFailures = 0
  /\ cbState = "closed"
  /\ epc = [e \in Execs |-> "idle"]
  /\ etask = [e \in Execs |-> 1]
  /\ eattempt = [e \in Execs |-> 0]
  /\ elock = [e \in Execs |-> 0]
  /\ edetached = [e \in Execs |-> FALSE]
  /\ eret = [e \in Execs |-> "none"]
  /\ spc = [c \in AllSchedulers |-> "idle"]
  /\ stask = [c \in AllSchedulers |-> 1]
  /\ slock = [c \in AllSchedulers |-> 0]
  /\ sret = [c \in AllSchedulers |-> "none"]
  /\ lret = <<"none", 0, "none">>
  /\ cpc = "idle"
  /\ ctodo = <<>>
  /\ clock = 0
  /\ cret = "none"

\* ---- schedule_task
\* a body that turns a new task away once MaxInstances tasks are scheduled
\* or running
ScheduleLockedCeiling(c, t, owner, queue, l) ==
  LET rel == LockReleased(owner, queue, l)
  IN /\ lockOwner' = rel.owner
     /\ lockQueue' = rel.queue
     /\ IF \/ task_status[t] # "absent"
           \/ Cardinality({u \in Tasks : task_status[u] \in {"scheduled", "running"}}) >= MaxInstances
        THEN /\ sret' = [sret EXCEPT ![c] = "false"]
             /\ UNCHANGED <<task_status, task_order, jobs>>
        ELSE /\ jobs' = jobs \cup {t}
             /\ task_status' = [task_status EXCEPT ![t] = "scheduled"]
             /\ task_order' = Append(task_order, t)
             /\ sret' = [sret EXCEPT ![c] = "true"]
     /\ spc' = [spc EXCEPT ![c] = "idle"]

\* a body that registers the task without the duplicate check
ScheduleLockedUnchecked(c, t, owner, queue, l) ==
  LET rel == LockReleased(owner, queue, l)
  IN /\ lockOwner' = rel.owner
     /\ lockQueue' = rel.queue
     /\ jobs' = jobs \cup {t}
     /\ task_status' = [task_status EXCEPT ![t] = "scheduled"]
     /\ task_order' = IF t \in Range(task_order) THEN task_order ELSE Append(task_order, t)
     /\ sret' = [sret EXCEPT ![c] = "true"]
     /\ spc' = [spc EXCEPT ![c] = "idle"]

\* the body under the task lock: duplicate check, add_job, track the task
ScheduleLocked(c, t, owner, queue, l) ==
  LET rel == LockReleased(owner, queue, l)
  IN /\ lockOwner' = rel.owner
     /\ lockQueue' = rel.queue
     /\ IF task_status[t] # "absent"
        THEN /\ sret' = [sret EXCEPT ![c] = "false"]
             /\ UNCHANGED <<task_status, task_order, jobs>>
        ELSE /\ jobs' = jobs \cup {t}
             /\ task_status' = [task_status EXCEPT ![t] = "scheduled"]
             /\ task_order' = Append(task_order, t)
             /\ sret' = [sret EXCEPT ![c] = "true"]
     /\ spc' = [spc EXCEPT ![c] = "idle"]

\* a schedule_task that does not validate the configuration
ScheduleTaskUnvalidated(c, t, valid) ==
  /\ spc[c] = "idle"
  /\ stask' = [stask EXCEPT ![c] = t]
  /\ LET l == IF task_locks[t] # 0 THEN task_locks[t] ELSE NewLock
     IN /\ task_locks' = [task_locks EXCEPT ![t] = l]
        /\ IF LockBusy(l)
           THEN /\ lockQueue' = [lockQueue EXCEPT ![l] = Append(@, SchedulerCtx(c))]
                /\ spc' = [spc EXCEPT ![c] = "lockwait"]
                /\ slock' = [slock EXCEPT ![c] = l]
                /\ UNCHANGED <<task_status, task_order, lockOwner, jobs, sret>>
           ELSE /\ ScheduleLocked(c, t, [lockOwner EXCEPT ![l] = SchedulerCtx(c)], lockQueue, l)
                /\ UNCHANGED slock
  /\ UNCHANGED <<lret, schedState, browserVars, breakerVars, execVars, cleanupVars>>

\* a schedule_task that does not look at the circuit breaker
ScheduleTaskNoBreaker(c, t, valid) ==
  IF valid
  THEN ScheduleTaskUnvalidated(c, t, valid)
  ELSE /\ spc[c] = "idle"
       /\ stask' = [stask EXCEPT ![c] = t]
       /\ sret' = [sret EXCEPT ![c] = "raised"]
       /\ UNCHANGED <<task_status, task_order, task_locks, lockOwner, lockQueue, jobs, spc, slock>>
       /\ UNCHANGED <<lret, schedState, browserVars, breakerVars, execVars, cleanupVars>>

\* schedule_task(task_id, task_config): up to the task lock
ScheduleTask(c, t, valid) ==
  /\ spc[c] = "idle"
  /\ stask' = [stask EXCEPT ![c] = t]
  /\ IF ~valid
     THEN \* ValueError on each of tenacity's attempts, then it is raised
          /\ sret' = [sret EXCEPT ![c] = "raised"]
          /\ UNCHANGED <<task_status, task_order, task_locks, lockOwner, lockQueue, jobs, spc, slock>>
     ELSE IF cbState = "open"
     THEN /\ sret' = [sret EXCEPT ![c] = "false"]
          /\ UNCHANGED <<task_status, task_order, task_locks, lockOwner, lockQueue, jobs, spc, slock>>
     ELSE LET l == IF task_locks[t] # 0 THEN task_locks[t] ELSE NewLock
          IN /\ task_locks' = [task_locks EXCEPT ![t] = l]
             /\ IF LockBusy(l)
                THEN /\ lockQueue' = [lockQueue EXCEPT ![l] = Append(@, SchedulerCtx(c))]
                     /\ spc' = [spc EXCEPT ![c] = "lockwait"]
                     /\ slock' = [slock EXCEPT ![c] = l]
                     /\ UNCHANGED <<task_status, task_order, lockOwner, jobs, sret>>
                ELSE /\ ScheduleLocked(c, t, [lockOwner EXCEPT ![l] = SchedulerCtx(c)], lockQueue, l)
                     /\ UNCHANGED slock
  /\ UNCHANGED <<lret, schedState, browserVars, breakerVars, execVars, cleanupVars>>

\* schedule_task resumes with the task lock
ScheduleResume(c) ==
  /\ spc[c] = "lockwait"
  /\ lockOwner[slock[c]] = SchedulerCtx(c)
  /\ ScheduleLocked(c, stask[c], lockOwner, lockQueue, slock[c])
  /\ slock' = [slock EXCEPT ![c] = 0]
  /\ UNCHANGED <<stask, lret, task_locks, schedState, browserVars, breakerVars, execVars, cleanupVars>>

\* ---- pause_task, resume_task, cancel_task
LifecycleOps == {"pause_task", "resume_task", "cancel_task"}

\* scheduler.pause_task(task_id), resume_task(task_id) or cancel_task(task_id):
\* TaskScheduler defines none of the three, the attribute lookup raises
\* AttributeError before anything is done
LifecycleCall(op, t) ==
  /\ lret' = <<op, t, "raised">>
  /\ UNCHANGED <<spc, stask, slock, sret, browserVars, taskVars, breakerVars, execVars, cleanupVars>>

\* ---- circuit breaker
\* _circuit_breaker.record_failure()
RecordFailure ==
  /\ cbFailures' = cbFailures + 1
  /\ cbState' = IF cbFailures + 1 >= FAILURE_THRESHOLD THEN "open" ELSE cbState

\* ---- execute_task
\* attempt number n raised: except clause, then tenacity retries or gives up
AttemptFailed(e, n) ==
  /\ RecordFailure
  /\ IF n < STOP_AFTER_ATTEMPT
     THEN epc' = [epc EXCEPT ![e] = "retry_wait"] /\ UNCHANGED eret
     ELSE epc' = [epc EXCEPT ![e] = "done"] /\ eret' = [eret EXCEPT ![e] = "raised"]

\* the body under the task lock up to the call of get_browser
ExecLocked(e, t, n, owner, queue, l) ==
  IF task_status[t] = "absent"
  THEN \* RuntimeError "not found": the lock is released on the way out
       LET rel == LockReleased(owner, queue, l)
       IN /\ lockOwner' = rel.owner
          /\ lockQueue' = rel.queue
          /\ elock' = [elock EXCEPT ![e] = 0]
          /\ AttemptFailed(e, n)
          /\ UNCHANGED <<task_status, ppc, prid, edetached>>
  ELSE /\ lockOwner' = owner
       /\ lockQueue' = queue
       /\ elock' = [elock EXCEPT ![e] = l]
       /\ task_status' = [task_status EXCEPT ![t] = "running"]
       /\ edetached' = [edetached EXCEPT ![e] = FALSE]
       /\ epc' = [epc EXCEPT ![e] = "browser"]
       \* BrowserManager.get_browser calls _browser_pool.acquire(timeout=...)
       /\ ppc' = [ppc EXCEPT ![e] = "start"]
       /\ prid' = [prid EXCEPT ![e] = NoneId]
       /\ UNCHANGED <<breakerVars, eret>>

\* one attempt of execute_task(task_id), up to the task lock
ExecAttempt(e, t, n) ==
  IF cbState = "open" \/ task_locks[t] = 0
  THEN \* RuntimeError "Circuit breaker open", or KeyError from _task_locks
       /\ AttemptFailed(e, n)
       /\ UNCHANGED <<task_status, lockOwner, lockQueue, ppc, prid, elock, edetached>>
  ELSE LET l == task_locks[t]
       IN IF LockBusy(l)
          THEN /\ lockQueue' = [lockQueue EXCEPT ![l] = Append(@, e)]
               /\ elock' = [elock EXCEPT ![e] = l]
               /\ epc' = [epc EXCEPT ![e] = "lockwait"]
               /\ UNCHANGED <<task_status, lockOwner, ppc, prid, edetached, breakerVars, eret>>
          ELSE ExecLocked(e, t, n, [lockOwner EXCEPT ![l] = e], lockQueue, l)

\* execute_task(task_id) is invoked, by the job of the task or by a caller
ExecuteTask(e, t, byJob) ==
  /\ epc[e] = "idle"
  /\ byJob => (schedState = "running" /\ t \in jobs)
  /\ jobs' = IF byJob THEN jobs \ {t} ELSE jobs
  /\ etask' = [etask EXCEPT ![e] = t]
  /\ eattempt' = [eattempt EXCEPT ![e] = 1]
  /\ ExecAttempt(e, t, 1)
  /\ UNCHANGED <<task_order, task_locks, schedState, browserVars, callVars, cleanupVars>>
  /\ UNCHANGED <<semValue, semWaiters, semGranted, resources, in_use, held, relRet, now>>

\* a wait that shrinks from attempt to attempt
RetryWaitShrinking(n) == WAIT_MAX - n

\* wait_exponential(multiplier=1, min=4, max=10) after attempt number n
RetryWait(n) == Max(WAIT_MIN, Min(WAIT_MULTIPLIER * 2 ^ (n - 1), WAIT_MAX))

\* tenacity's wait is over: the next attempt
ExecRetry(e) ==
  /\ epc[e] = "retry_wait"
  /\ eattempt' = [eattempt EXCEPT ![e] = @ + 1]
  /\ ExecAttempt(e, etask[e], eattempt[e] + 1)
  /\ UNCHANGED <<etask, jobs, task_order, task_locks, schedState, browserVars, callVars, cleanupVars>>
  /\ UNCHANGED <<semValue, semWaiters, semGranted, resources, in_use, held, relRet, now>>

\* execute_task resumes with the task lock
ExecLockGranted(e) ==
  /\ epc[e] = "lockwait"
  /\ lockOwner[elock[e]] = e
  /\ ExecLocked(e, etask[e], eattempt[e], lockOwner, lockQueue, elock[e])
  /\ UNCHANGED <<etask, eattempt, jobs, task_order, task_locks, schedState, browserVars, callVars, cleanupVars>>
  /\ UNCHANGED <<semValue, semWaiters, semGranted, resources, in_use, held, relRet, now>>

\* the semaphore steps of the pool's acquire inside get_browser
ExecBrowserWait(e) ==
  /\ epc[e] = "browser"
  /\ (AcquireSemaphore(e) \/ AcquireResume(e))
  /\ UNCHANGED <<now, schedVars, rateVars, proxyVars, retryVars, taskPoolVars>>

\* acquire returns the browser: get_browser registers it, execute_task marks
\* the task completed, leaves the lock and goes on to release_browser
ExecBrowserAcquired(e) ==
  /\ epc[e] = "browser"
  /\ AcquireFinish(e)
  /\ active_browsers' = active_browsers \cup {held'[e]}
  /\ task_status' = IF edetached[e] THEN task_status
                    ELSE [task_status EXCEPT ![etask[e]] = "completed"]
  /\ LET rel == LockReleased(lockOwner, lockQueue, elock[e])
     IN lockOwner' = rel.owner /\ lockQueue' = rel.queue
  /\ elock' = [elock EXCEPT ![e] = 0]
  /\ epc' = [epc EXCEPT ![e] = "release_browser"]
  /\ UNCHANGED <<brRet, brCleanups, brHealth, task_order, task_locks, jobs, schedState, breakerVars>>
  /\ UNCHANGED <<etask, eattempt, edetached, eret, callVars, cleanupVars, now>>

\* acquire times out: get_browser re-raises, execute_task leaves the lock,
\* records the failure and has no browser to release
ExecBrowserTimeout(e) ==
  /\ epc[e] = "browser"
  /\ AcquireTimeout(e)
  /\ LET rel == LockReleased(lockOwner, lockQueue, elock[e])
     IN lockOwner' = rel.owner /\ lockQueue' = rel.queue
  /\ elock' = [elock EXCEPT ![e] = 0]
  /\ AttemptFailed(e, eattempt[e])
  /\ UNCHANGED <<browserVars, task_status, task_order, task_locks, jobs, schedState>>
  /\ UNCHANGED <<etask, eattempt, edetached, callVars, cleanupVars, now>>

\* the finally clause: release_browser(str(id(browser))); browser.cleanup()
\* either raises (the pool's plain object() has no cleanup) or completes
ExecReleaseBrowser(e, cleanupOk) ==
  /\ epc[e] = "release_browser"
  /\ LET known == held[e] \in active_browsers
         success == known /\ cleanupOk /\ ReleaseRet(held[e])
     IN /\ IF known /\ cleanupOk
           THEN ReleaseEffect(held[e], held[e])
           ELSE UNCHANGED <<in_use, resources, semValue, semWaiters, semGranted>>
        /\ active_browsers' = IF success THEN active_browsers \ {held[e]} ELSE active_browsers
        /\ brRet' = [brRet EXCEPT ![e] = success]
  /\ epc' = [epc EXCEPT ![e] = "done"]
  /\ eret' = [eret EXCEPT ![e] = "returned"]
  /\ UNCHANGED <<ppc, prid, held, relRet, now, taskVars, breakerVars, brCleanups, brHealth>>
  /\ UNCHANGED <<etask, eattempt, elock, edetached, callVars, cleanupVars>>

\* _run_health_checks: the probe of an active browser raised, and the except
\* clause calls release_browser(browser_id)
BrowserHealthFail(b, cleanupOk) ==
  /\ b \in active_browsers
  /\ LET success == cleanupOk /\ ReleaseRet(b)
     IN /\ IF cleanupOk
           THEN ReleaseEffect(b, b)
           ELSE UNCHANGED <<in_use, resources, semValue, semWaiters, semGranted>>
        /\ active_browsers' = IF success THEN active_browsers \ {b} ELSE active_browsers
        /\ brHealth' = [browser |-> b, released |-> success]
  /\ UNCHANGED <<ppc, prid, held, relRet, now, brRet, brCleanups>>
  /\ UNCHANGED <<taskVars, breakerVars, execVars, callVars, cleanupVars>>

\* ---- cleanup
\* the executions whose task_data is the record of task t
Attached(t) == {e \in Execs : etask[e] = t /\ epc[e] = "browser" /\ ~edetached[e]}

\* one visit of the loop with the task lock held: job.remove() and pop;
\* job.remove() raises when the job is gone and the pop is skipped
CleanupVisit(st, t) ==
  IF st.status[t] # "absent" /\ t \in st.jobs
  THEN [status |-> [st.status EXCEPT ![t] = "absent"],
        order |-> SeqRemove(st.order, t),
        jobs |-> st.jobs \ {t},
        detached |-> st.detached \cup Attached(t)]
  ELSE st

\* the loop over the snapshot, up to a lock that is taken (blocked # 0)
RECURSIVE CleanupLoop(_, _)
CleanupLoop(todo, st) ==
  IF todo = <<>>
  THEN [st |-> st, todo |-> <<>>, blocked |-> 0]
  ELSE LET t == Head(todo)
           l == task_locks[t]
       IN IF l = 0
          THEN CleanupLoop(Tail(todo), st)
          ELSE IF LockBusy(l)
          THEN [st |-> st, todo |-> todo, blocked |-> l]
          ELSE CleanupLoop(Tail(todo), CleanupVisit(st, t))

\* a cleanup that ends without the two clear() calls
CleanupContinueNoClear(res, owner, queue) ==
  /\ lockOwner' = owner
  /\ task_status' = res.st.status
  /\ task_order' = res.st.order
  /\ jobs' = res.st.jobs
  /\ edetached' = [e \in Execs |-> edetached[e] \/ e \in res.st.detached]
  /\ IF res.blocked # 0
     THEN /\ lockQueue' = [queue EXCEPT ![res.blocked] = Append(@, CleanupCtx)]
          /\ cpc' = "lockwait"
          /\ ctodo' = res.todo
          /\ clock' = res.blocked
          /\ UNCHANGED <<task_locks, cret>>
     ELSE /\ lockQueue' = queue
          /\ schedState' = "shutdown"
          /\ cpc' = "idle"
          /\ ctodo' = <<>>
          /\ clock' = 0
          /\ cret' = "returned"
          /\ UNCHANGED task_locks

\* where the loop leaves cleanup: waiting for a lock, or through the
\* shutdown and the two clear() calls
CleanupContinue(res, owner, queue) ==
  IF res.blocked # 0
  THEN /\ lockOwner' = owner
       /\ lockQueue' = [queue EXCEPT ![res.blocked] = Append(@, CleanupCtx)]
       /\ task_status' = res.st.status
       /\ task_order' = res.st.order
       /\ jobs' = res.st.jobs
       /\ edetached' = [e \in Execs |-> edetached[e] \/ e \in res.st.detached]
       /\ cpc' = "lockwait"
       /\ ctodo' = res.todo
       /\ clock' = res.blocked
       /\ UNCHANGED <<task_locks, cret>>
  ELSE /\ lockOwner' = owner
       /\ lockQueue' = queue
       /\ task_status' = [t \in Tasks |-> "absent"]
       /\ task_order' = <<>>
       /\ task_locks' = [t \in Tasks |-> 0]
       /\ jobs' = res.st.jobs
       /\ edetached' = [e \in Execs |-> edetached[e] \/ epc[e] = "browser"]
       /\ schedState' = "shutdown"
       /\ cpc' = "idle"
       /\ ctodo' = <<>>
       /\ clock' = 0
       /\ cret' = "returned"

CleanupState == [status |-> task_status, order |-> task_order, jobs |-> jobs, detached |-> {}]

\* cleanup() is called
Cleanup ==
  /\ cpc = "idle"
  /\ IF schedState = "shutdown"
     THEN \* _scheduler.pause() raises SchedulerNotRunningError
          /\ cret' = "raised"
          /\ UNCHANGED <<taskVars, edetached, cpc, ctodo, clock>>
     ELSE LET res == CleanupLoop(task_order, CleanupState)
          IN /\ CleanupContinue(res, lockOwner, lockQueue)
             /\ (res.blocked # 0 => schedState' = "paused")
  /\ UNCHANGED <<poolVars, now, browserVars, breakerVars, callVars>>
  /\ UNCHANGED <<epc, etask, eattempt, elock, eret>>

\* cleanup() resumes with the lock it waited for
CleanupResume ==
  /\ cpc = "lockwait"
  /\ lockOwner[clock] = CleanupCtx
  /\ LET rel == LockReleased(lockOwner, lockQueue, clock)
         res == CleanupLoop(Tail(ctodo), CleanupVisit(CleanupState, Head(ctodo)))
     IN /\ CleanupContinue(res, rel.owner, rel.queue)
        /\ (res.blocked # 0 => UNCHANGED schedState)
  /\ UNCHANGED <<poolVars, now, browserVars, breakerVars, callVars>>
  /\ UNCHANGED <<epc, etask, eattempt, elock, eret>>

\* ------------------------------------------------------ RateLimitMiddleware
Checkers == 1..NumCheckers
\* _get_rate_limit_key(domain, client_id) for one domain and NumKeys clients
Keys == 1..NumKeys
Limits == 0..MaxLimit
Windows == 1..MaxWindow
\* burst multipliers 0 and 0.5
BurstPercents == {0, 50}


\* the backoff None of an allowed check
NoBackoff == 0 - 1

\* burst_limit = int(rate_limit * (1 + burst_multiplier))
BurstLimit(limit, percent) == (limit * (100 + percent)) \div 100

\* redis: the key exists and has not expired
KeyLive(k) == redis_value[k] # 0 /\ now < redis_expire[k]

\* the Lua script: what it returns
ScriptResult(k, burst_limit) ==
  IF ~KeyLive(k)
  THEN [raised |-> FALSE, allowed |-> 1, remaining |-> burst_limit]
  ELSE IF redis_value[k] < burst_limit
  THEN [raised |-> FALSE, allowed |-> 1, remaining |-> burst_limit - redis_value[k]]
  ELSE [raised |-> FALSE, allowed |-> 0, remaining |-> 0]

\* the Lua script: setex key window 1, or incr key, or nothing
ScriptEffect(k, burst_limit, window) ==
  IF ~KeyLive(k)
  THEN /\ redis_value' = [redis_value EXCEPT ![k] = 1]
       /\ redis_expire' = [redis_expire EXCEPT ![k] = now + window]
  ELSE IF redis_value[k] < burst_limit
  THEN /\ redis_value' = [redis_value EXCEPT ![k] = @ + 1]
       /\ UNCHANGED redis_expire
  ELSE UNCHANGED <<redis_value, redis_expire>>

\* the eval call raised
StoreRaised == [raised |-> TRUE, allowed |-> 0, remaining |-> 0]

\* no answer yet
NoResult == [raised |-> FALSE, allowed |-> 0, remaining |-> 0]

\* RateLimitMiddleware.__init__: the metrics, an empty store, no call made
RateIdle ==
  /\ redis_value = [k \in Keys |-> 0]
  /\ redis_expire = [k \in Keys |-> 0]
  /\ rate_limit_hits = 0
  /\ rate_limit_misses = 0
  /\ rate_limit_errors = 0
  /\ rpc = [c \in Checkers |-> "idle"]
  /\ rkey = [c \in Checkers |-> 0]
  /\ rresult = [c \in Checkers |-> NoResult]
  /\ rret = [allowed |-> FALSE, remaining |-> 0, backoff |-> NoBackoff]

\* constructed without configuration: the defaults apply
RateDefault ==
  /\ rate_limits = DEFAULT_RATE_LIMIT
  /\ window_seconds = DEFAULT_WINDOW_SECONDS
  /\ burst_multipliers = BURST_LIMIT_MULTIPLIER
  /\ RateIdle

\* constructed with a configuration for the domain
RateInit ==
  /\ rate_limits \in Limits
  /\ window_seconds \in Windows
  /\ burst_multipliers \in BurstPercents
  /\ RateIdle

\* check_rate_limit(domain, client_id) up to the store's answer: the script
\* runs atomically in the store, or the call raises
CheckRateLimit(c, k, reachable) ==
  /\ rpc[c] = "idle"
  /\ rate_limit_hits + rate_limit_misses + rate_limit_errors
       + Cardinality({d \in Checkers : rpc[d] = "replied"}) < MaxChecks
  /\ rkey' = [rkey EXCEPT ![c] = k]
  /\ LET burst_limit == BurstLimit(rate_limits, burst_multipliers)
     IN IF reachable
        THEN /\ ScriptEffect(k, burst_limit, window_seconds)
             /\ rresult' = [rresult EXCEPT ![c] = ScriptResult(k, burst_limit)]
        ELSE /\ rresult' = [rresult EXCEPT ![c] = StoreRaised]
             /\ UNCHANGED <<redis_value, redis_expire>>
  /\ rpc' = [rpc EXCEPT ![c] = "replied"]
  /\ UNCHANGED <<configVars, metricVars, rret>>

\* a check that fails open
ErrorResultOpen == [allowed |-> TRUE, remaining |-> 0, backoff |-> NoBackoff]

\* the except clause: "fail closed on errors"
ErrorResult == [allowed |-> FALSE, remaining |-> 0, backoff |-> DEFAULT_WINDOW_SECONDS]

\* check_rate_limit after the store's answer: metrics and return value
CheckReturn(c) ==
  /\ rpc[c] = "replied"
  /\ LET burst_limit == BurstLimit(rate_limits, burst_multipliers)
         res == rresult[c]
     IN IF res.raised
        THEN /\ rate_limit_errors' = rate_limit_errors + 1
             /\ rret' = ErrorResult
             /\ UNCHANGED <<rate_limit_hits, rate_limit_misses>>
        ELSE IF res.allowed = 1
        THEN /\ rate_limit_misses' = rate_limit_misses + 1
             /\ rret' = [allowed |-> TRUE, remaining |-> res.remaining, backoff |-> NoBackoff]
             /\ UNCHANGED <<rate_limit_hits, rate_limit_errors>>
        ELSE /\ rate_limit_hits' = rate_limit_hits + 1
             /\ UNCHANGED rate_limit_misses
             /\ IF burst_limit = 0
                THEN \* remaining/burst_limit raises ZeroDivisionError
                     /\ rate_limit_errors' = rate_limit_errors + 1
                     /\ rret' = ErrorResult
                ELSE \* min(window * (1 - remaining/burst_limit), MAX_BACKOFF_SECONDS)
                     /\ rret' = [allowed |-> FALSE, remaining |-> 0,
                               backoff |-> Min(window_seconds, MAX_BACKOFF_SECONDS)]
                     /\ UNCHANGED rate_limit_errors
  /\ rpc' = [rpc EXCEPT ![c] = "idle"]
  /\ rkey' = [rkey EXCEPT ![c] = 0]
  /\ rresult' = [rresult EXCEPT ![c] = NoResult]
  /\ UNCHANGED <<configVars, storeVars>>

\* reset_rate_limit(domain, client_id): the key is deleted and True is
\* returned, or the store raises and False is returned
ResetRateLimit(k, reachable) ==
  /\ redis_value' = IF reachable THEN [redis_value EXCEPT ![k] = 0] ELSE redis_value
  /\ redis_expire' = IF reachable THEN [redis_expire EXCEPT ![k] = 0] ELSE redis_expire
  /\ UNCHANGED <<configVars, metricVars, checkVars>>

\* ------------------------------------------------------------ ProxyService
Proxies == 1..NumProxies

\* ProxyMetrics(): the dataclass defaults; health_score is kept as the pair
\* <<numerator, denominator>>
NewMetrics == [tracked |-> TRUE, success_count |-> 0, failure_count |-> 0,
               health_score |-> <<1, 1>>, last_used |-> 0]

\* no entry in _proxy_metrics
NoMetrics == [tracked |-> FALSE, success_count |-> 0, failure_count |-> 0,
              health_score |-> <<1, 1>>, last_used |-> 0]

\* no entry in _circuit_breakers
NoBreaker == 0 - 1

\* get_proxy raised; no get_proxy call has ended
ProxyError == 0
NoProxy == 0 - 1

Tracked == {p \in Proxies : proxy_metrics[p].tracked}

\* health_score >= PROXY_SUCCESS_THRESHOLD
HealthOk(h) == 100 * h[1] >= PROXY_SUCCESS_THRESHOLD * h[2]

\* comparison of two health scores
HealthGreater(a, b) == a[1] * b[2] > b[1] * a[2]

\* CircuitBreaker.is_open(): the failures it counted reached the threshold
BreakerIsOpen(p) == circuit_breakers[p] >= PROXY_CIRCUIT_BREAKER_THRESHOLD

\* ProxyService.__init__: nothing tracked, the lock free
ProxyIdle ==
  /\ proxy_metrics = [p \in Proxies |-> NoMetrics]
  /\ circuit_breakers = [p \in Proxies |-> NoBreaker]
  /\ proxy_order = <<>>
  /\ pool_lock = "free"
  /\ hlist = <<>>
  /\ contexts = {}
  /\ gattempt = 0
  /\ gret = NoProxy
  /\ tripped = {}

ProxyInit ==
  /\ ProxyIdle
  /\ report_cap = MaxReports

\* _record_success: counted only for a proxy that is tracked
RecordSuccess(m) ==
  IF m.tracked
  THEN [m EXCEPT !.success_count = @ + 1,
                 !.health_score = <<m.success_count + 1, m.success_count + 1 + m.failure_count>>]
  ELSE m

\* a failure count without a new health score
RecordFailureStale(m) == IF m.tracked THEN [m EXCEPT !.failure_count = @ + 1] ELSE m

\* _record_failure: counted only for a proxy that is tracked
RecordFailureOf(m) ==
  IF m.tracked
  THEN [m EXCEPT !.failure_count = @ + 1,
                 !.health_score = <<m.success_count, m.success_count + m.failure_count + 1>>]
  ELSE m

\* the reports counted for a proxy stay within the cap of the behaviour
CanReport(p) == proxy_metrics[p].success_count + proxy_metrics[p].failure_count < report_cap

RECURSIVE AppendAll(_, _)
AppendAll(order, S) ==
  IF S = {} THEN order
  ELSE LET x == CHOOSE y \in S : \A z \in S : y <= z
       IN AppendAll(Append(order, x), S \ {x})

\* _add_proxy after validation: fresh metrics and a fresh breaker; a key that
\* is in the dicts keeps its place
AddProxies(metrics, breakers, order, S) ==
  [metrics |-> [p \in Proxies |-> IF p \in S THEN NewMetrics ELSE metrics[p]],
   breakers |-> [p \in Proxies |-> IF p \in S THEN 0 ELSE breakers[p]],
   order |-> AppendAll(order, S \ Range(order))]

\* _remove_proxy for every proxy of S
RemoveProxies(metrics, breakers, order, S) ==
  [metrics |-> [p \in Proxies |-> IF p \in S THEN NoMetrics ELSE metrics[p]],
   breakers |-> [p \in Proxies |-> IF p \in S THEN NoBreaker ELSE breakers[p]],
   order |-> SelectSeq(order, LAMBDA x : x \notin S)]

SetPool(r) ==
  /\ proxy_metrics' = r.metrics
  /\ circuit_breakers' = r.breakers
  /\ proxy_order' = r.order

\* a filter that forgets the health score
HealthyProxiesAnyScore == SelectSeq(proxy_order, LAMBDA p : ~BreakerIsOpen(p))

\* get_proxy: the filter, in the order of the dict
HealthyProxies ==
  SelectSeq(proxy_order, LAMBDA p : ~BreakerIsOpen(p) /\ HealthOk(proxy_metrics[p].health_score))

\* max(healthy_proxies, key=health_score): the first one with the best score
SelectBest(healthy) ==
  LET i == CHOOSE i \in 1..Len(healthy) :
             /\ \A j \in 1..Len(healthy) :
                  ~HealthGreater(proxy_metrics[healthy[j]].health_score, proxy_metrics[healthy[i]].health_score)
             /\ \A j \in 1..(i - 1) :
                  HealthGreater(proxy_metrics[healthy[i]].health_score, proxy_metrics[healthy[j]].health_score)
  IN healthy[i]

\* one attempt of get_proxy under AsyncRetry: with the lock, the healthy
\* proxy with the best score is returned with its context; without one the
\* RuntimeError is retried GET_PROXY_MAX_RETRIES times and then raised
GetProxy ==
  /\ pool_lock = "free"
  /\ LET healthy == HealthyProxies
     IN IF healthy # <<>>
        THEN LET selected_proxy == SelectBest(healthy)
             IN /\ proxy_metrics' = [proxy_metrics EXCEPT ![selected_proxy].last_used = now]
                /\ contexts' = contexts \cup {selected_proxy}
                /\ gret' = selected_proxy
                /\ gattempt' = 0
        ELSE /\ gret' = IF gattempt = GET_PROXY_MAX_RETRIES THEN ProxyError ELSE NoProxy
             /\ gattempt' = IF gattempt = GET_PROXY_MAX_RETRIES THEN 0 ELSE gattempt + 1
             /\ UNCHANGED <<proxy_metrics, contexts>>
  /\ UNCHANGED <<circuit_breakers, proxy_order, pool_lock, hlist, tripped>>

\* ProxyContext.__aexit__: the result of the use is recorded, without the lock
ContextExit(p, ok) ==
  /\ p \in contexts
  /\ ~proxy_metrics[p].tracked \/ CanReport(p)
  /\ contexts' = contexts \ {p}
  /\ proxy_metrics' = [proxy_metrics EXCEPT ![p] = IF ok THEN RecordSuccess(@) ELSE RecordFailureOf(@)]
  /\ UNCHANGED <<circuit_breakers, proxy_order, pool_lock, hlist, gattempt, gret, tripped>>

\* report_failure up to its request for a replacement: the failure is
\* recorded, the breaker fed, the proxy removed when its breaker opened; with
\* room in the pool the lock stays held while the upstream is asked
ReportFailure(p) ==
  /\ pool_lock = "free"
  /\ ~proxy_metrics[p].tracked \/ CanReport(p)
  /\ LET recorded == [proxy_metrics EXCEPT ![p] = RecordFailureOf(@)]
         fed == IF circuit_breakers[p] # NoBreaker
                THEN [circuit_breakers EXCEPT ![p] = @ + 1]
                ELSE circuit_breakers
         opened == fed[p] # NoBreaker /\ fed[p] >= PROXY_CIRCUIT_BREAKER_THRESHOLD
         r == IF opened
              THEN RemoveProxies(recorded, fed, proxy_order, {p})
              ELSE [metrics |-> recorded, breakers |-> fed, order |-> proxy_order]
     IN /\ SetPool(r)
        /\ tripped' = IF opened THEN tripped \cup {p} ELSE tripped
        /\ pool_lock' = IF Len(r.order) < ProxyPoolSize THEN "report" ELSE "free"
  /\ UNCHANGED <<hlist, contexts, gattempt, gret>>

\* the upstream answers report_failure: S holds the replacement that passed
\* validation, and is empty when the request raised or the url was rejected
ReportReplace(S) ==
  /\ pool_lock = "report"
  /\ Cardinality(S) <= 1
  /\ SetPool(AddProxies(proxy_metrics, circuit_breakers, proxy_order, S))
  /\ pool_lock' = "free"
  /\ UNCHANGED <<hlist, contexts, gattempt, gret, tripped>>

\* _health_check_loop takes the lock and the list of the tracked proxies
HealthStart ==
  /\ pool_lock = "free"
  /\ proxy_order # <<>>
  /\ \A p \in Tracked :
       proxy_metrics[p].success_count + proxy_metrics[p].failure_count
         + (IF p \in contexts THEN 1 ELSE 0) < report_cap
  /\ hlist' = proxy_order
  /\ pool_lock' = "health"
  /\ UNCHANGED <<proxy_metrics, circuit_breakers, proxy_order, contexts, gattempt, gret, tripped>>

\* _check_proxy_health of the next proxy of the list; after the last one the
\* lock is released
HealthProbe(ok) ==
  /\ pool_lock = "health"
  /\ hlist # <<>>
  /\ proxy_metrics' = [proxy_metrics EXCEPT ![Head(hlist)] = IF ok THEN RecordSuccess(@) ELSE RecordFailureOf(@)]
  /\ hlist' = Tail(hlist)
  /\ pool_lock' = IF Tail(hlist) = <<>> THEN "free" ELSE "health"
  /\ UNCHANGED <<circuit_breakers, proxy_order, contexts, gattempt, gret, tripped>>

\* _rotate_proxies up to its request to the upstream: proxies under the
\* threshold are removed; with room in the pool the lock stays held while
\* the upstream is asked
RotateStart ==
  /\ pool_lock = "free"
  /\ LET low == {p \in Tracked : ~HealthOk(proxy_metrics[p].health_score)}
         r == RemoveProxies(proxy_metrics, circuit_breakers, proxy_order, low)
     IN /\ SetPool(r)
        /\ pool_lock' = IF Len(r.order) < ProxyPoolSize THEN "rotation" ELSE "free"
  /\ UNCHANGED <<hlist, contexts, gattempt, gret, tripped>>

\* the upstream answers _rotate_proxies: S holds the proxies that passed
\* validation, and is empty when the request raised
RotateFill(S) ==
  /\ pool_lock = "rotation"
  /\ Cardinality(S) <= ProxyPoolSize - Len(proxy_order)
  /\ SetPool(AddProxies(proxy_metrics, circuit_breakers, proxy_order, S))
  /\ pool_lock' = "free"
  /\ UNCHANGED <<hlist, contexts, gattempt, gret, tripped>>

\* ------------------------------------------------- utils/retry.py wrappers
WrapperKinds == {"sync", "async"}
\* what func can raise: two subclasses of Exception and one BaseException
Raisable == {"ValueError", "ConnectionError", "KeyboardInterrupt"}
\* the exceptions tuples a decorator is built with: the default (Exception,)
\* and (ConnectionError,), each as the set of classes of Raisable it matches
ExceptionTuples == {{"ValueError", "ConnectionError"}, {"ConnectionError"}}
\* backoff_factor 1.0 and the default 2.0
BackoffFactors == {1, 2}
Results == 1..NumResults
NoException == [exc |-> "None", from |-> 0]
NoOutcome == [kind |-> "none", val |-> 0, exc |-> "None", from |-> 0]
\* what one invocation of func does: return a result or raise
Outcomes ==
  {[ok |-> TRUE, val |-> v, exc |-> "None"] : v \in Results}
    \cup {[ok |-> FALSE, val |-> 0, exc |-> x] : x \in Raisable}

RetryInit ==
  /\ wkind = "sync"
  /\ max_retries = 0
  /\ exceptions = {"ValueError", "ConnectionError"}
  /\ backoff_factor = 2
  /\ attempt = 0
  /\ last_exception = NoException
  /\ calls = <<>>
  /\ wpc = "idle"
  /\ wret = NoOutcome

\* calculate_delay raises ValueError("Invalid retry parameters") for these
InvalidDelayParameters(a, initial_delay, max_delay, factor) ==
  a < 0 \/ initial_delay <= 0 \/ max_delay <= 0 \/ factor <= 1

\* a wrapper that allows itself one attempt more
ExhaustedLate(a, n) == a = n + 1

\* "if attempt == max_retries": the attempt that failed was the last one
Exhausted(a, n) == a = n

\* wrapper(*args, **kwargs) is called: the locals, and the loop is entered
WrapperCall(k, n, excs, factor) ==
  /\ wpc = "idle"
  /\ wkind' = k
  /\ max_retries' = n
  /\ exceptions' = excs
  /\ backoff_factor' = factor
  /\ attempt' = 0
  /\ last_exception' = NoException
  /\ calls' = <<>>
  /\ wret' = NoOutcome
  /\ wpc' = "invoke"

\* one pass of the loop body: func is invoked and returns or raises; the
\* except clause re-raises, or computes the delay and goes to sleep
Invoke(o) ==
  /\ wpc = "invoke"
  /\ calls' = Append(calls, o)
  /\ LET k == Len(calls) + 1
     IN IF o.ok
        THEN /\ wret' = [kind |-> "returned", val |-> o.val, exc |-> "None", from |-> k]
             /\ wpc' = "done"
             /\ UNCHANGED last_exception
        ELSE IF o.exc \notin exceptions
        THEN \* not caught by "except exceptions": propagates
             /\ wret' = [kind |-> "raised", val |-> 0, exc |-> o.exc, from |-> k]
             /\ wpc' = "done"
             /\ UNCHANGED last_exception
        ELSE /\ last_exception' = [exc |-> o.exc, from |-> k]
             /\ IF Exhausted(attempt, max_retries)
                THEN /\ wret' = [kind |-> "raised", val |-> 0, exc |-> o.exc, from |-> k]
                     /\ wpc' = "done"
                ELSE IF InvalidDelayParameters(attempt, 1, 60, backoff_factor)
                THEN \* calculate_delay raises inside the except clause
                     /\ wret' = [kind |-> "raised", val |-> 0, exc |-> "ValueError", from |-> 0]
                     /\ wpc' = "done"
                ELSE /\ wpc' = "sleep"
                     /\ UNCHANGED wret
  /\ UNCHANGED <<wkind, max_retries, exceptions, backoff_factor, attempt>>

\* time.sleep(delay) or await asyncio.sleep(delay) is over: next pass
SleepOver ==
  /\ wpc = "sleep"
  /\ attempt' = attempt + 1
  /\ wpc' = "invoke"
  /\ UNCHANGED <<wkind, max_retries, exceptions, backoff_factor, last_exception, calls, wret>>

\* the task that awaits asyncio.sleep(delay) is cancelled
SleepCancelled ==
  /\ wpc = "sleep"
  /\ wkind = "async"
  /\ wret' = [kind |-> "raised", val |-> 0, exc |-> "CancelledError", from |-> 0]
  /\ wpc' = "done"
  /\ UNCHANGED <<wkind, max_retries, exceptions, backoff_factor, attempt, last_exception, calls>>

\* the caller has the result or the exception; the wrapper can be called again
WrapperDone ==
  /\ wpc = "done"
  /\ wpc' = "idle"
  /\ UNCHANGED <<wkind, max_retries, exceptions, backoff_factor, attempt, last_exception, calls, wret>>

\* ---------------------------------------------------------------- TaskPool
PoolTasks == 1..NumPoolTasks
\* the task id as the resource_id of the pool
TaskResourceId(t) == 200 + t

\* TaskPool.__init__
TaskPoolInit ==
  /\ task_metadata = [t \in PoolTasks |-> 0]
  /\ tpc = [p \in Callers |-> "idle"]
  /\ ttask = [p \in Callers |-> 0]
  /\ tret = [p \in Callers |-> FALSE]

\* TaskPool.acquire(task_id) up to its await: a task with metadata is
\* refused, otherwise _resource_pool.acquire(timeout, task_id) is called
TaskAcquireCall(p, t) ==
  /\ tpc[p] = "idle"
  /\ ppc[p] = "idle"
  /\ ttask' = [ttask EXCEPT ![p] = t]
  /\ IF task_metadata[t] # 0
     THEN /\ tret' = [tret EXCEPT ![p] = FALSE]
          /\ tpc' = [tpc EXCEPT ![p] = "refused"]
          /\ UNCHANGED poolVars
     ELSE /\ AcquireCall(p, TaskResourceId(t))
          /\ tpc' = [tpc EXCEPT ![p] = "acquiring"]
          /\ UNCHANGED tret
  /\ UNCHANGED task_metadata

\* the semaphore steps of the pool's acquire inside TaskPool.acquire
TaskAcquireWait(p) ==
  /\ tpc[p] = "acquiring"
  /\ (AcquireSemaphore(p) \/ AcquireResume(p))
  /\ UNCHANGED taskPoolVars

\* the pool's acquire raised TimeoutError: the except clause returns False
TaskAcquireTimeout(p) ==
  /\ tpc[p] = "acquiring"
  /\ AcquireTimeout(p)
  /\ tret' = [tret EXCEPT ![p] = FALSE]
  /\ tpc' = [tpc EXCEPT ![p] = "failed"]
  /\ UNCHANGED <<task_metadata, ttask>>

\* the pool's acquire returned: the metadata is recorded, True is returned
TaskAcquireFinish(p) ==
  /\ tpc[p] = "acquiring"
  /\ AcquireFinish(p)
  /\ task_metadata' = [task_metadata EXCEPT ![ttask[p]] = held'[p]]
  /\ tret' = [tret EXCEPT ![p] = TRUE]
  /\ tpc' = [tpc EXCEPT ![p] = "holding"]
  /\ UNCHANGED ttask

\* TaskPool.release(task_id) by a caller whose acquire returned True
TaskRelease(p) ==
  /\ tpc[p] = "holding"
  /\ LET t == ttask[p]
     IN IF task_metadata[t] = 0
        THEN /\ tret' = [tret EXCEPT ![p] = FALSE]
             /\ UNCHANGED <<task_metadata, in_use, resources, semValue, semWaiters, semGranted>>
        ELSE /\ task_metadata' = [task_metadata EXCEPT ![t] = 0]
             /\ ReleaseEffect(task_metadata[t], TaskResourceId(t))
             /\ tret' = [tret EXCEPT ![p] = ReleaseRet(TaskResourceId(t))]
  /\ tpc' = [tpc EXCEPT ![p] = "released"]
  /\ UNCHANGED <<ppc, prid, held, relRet, ttask>>

Init ==
  /\ PoolInit
  /\ SchedInit
  /\ RateDefault
  /\ ProxyInit
  /\ RetryInit
  /\ TaskPoolInit
  /\ now = 0

PoolNext ==
  \/ \E p \in Procs : \E rid \in CallerIds(p) : AcquireCall(p, rid) /\ UNCHANGED <<now, schedVars, rateVars, proxyVars, retryVars, taskPoolVars>>
  \/ \E p \in Procs : AcquireSemaphore(p) /\ UNCHANGED <<now, schedVars, rateVars, proxyVars, retryVars, taskPoolVars>>
  \/ \E p \in Procs : AcquireResume(p) /\ UNCHANGED <<now, schedVars, rateVars, proxyVars, retryVars, taskPoolVars>>
  \/ \E p \in Procs : AcquireTimeout(p) /\ UNCHANGED <<now, schedVars, rateVars, proxyVars, retryVars, taskPoolVars>>
  \/ \E p \in Procs : AcquireFinish(p) /\ UNCHANGED <<now, schedVars, rateVars, proxyVars, retryVars, taskPoolVars>>
  \/ \E p \in Procs : Release(p) /\ UNCHANGED <<now, schedVars, rateVars, proxyVars, retryVars, taskPoolVars>>
  \/ PeriodicCleanup /\ UNCHANGED <<now, schedVars, rateVars, proxyVars, retryVars, taskPoolVars>>
  \/ Tick /\ UNCHANGED <<poolVars, schedVars, rateVars, proxyVars, retryVars, taskPoolVars>>

PoolSpec == Init /\ [][PoolNext]_vars

\* the pool with release calls whose arguments are not tied to an acquire
AnyReleaseNext ==
  \/ PoolNext
  \/ \E res \in LiveResources \ {0}, rid \in UNION {CallerIds(p) : p \in Procs} :
       ReleaseAny(res, rid) /\ UNCHANGED <<now, schedVars, rateVars, proxyVars, retryVars, taskPoolVars>>

AnyReleaseSpec == Init /\ [][AnyReleaseNext]_vars

\* the pool of a subclass whose _create_resource can raise
CreateFailNext ==
  \/ PoolNext
  \/ \E p \in Procs : AcquireCreateFails(p) /\ UNCHANGED <<now, schedVars, rateVars, proxyVars, retryVars, taskPoolVars>>

CreateFailSpec == Init /\ [][CreateFailNext]_vars

TaskPoolNext ==
  \/ \E p \in Procs, t \in PoolTasks :
       TaskAcquireCall(p, t) /\ UNCHANGED <<now, schedVars, rateVars, proxyVars, retryVars>>
  \/ \E p \in Procs : TaskAcquireWait(p) /\ UNCHANGED <<now, schedVars, rateVars, proxyVars, retryVars>>
  \/ \E p \in Procs : TaskAcquireTimeout(p) /\ UNCHANGED <<now, schedVars, rateVars, proxyVars, retryVars>>
  \/ \E p \in Procs : TaskAcquireFinish(p) /\ UNCHANGED <<now, schedVars, rateVars, proxyVars, retryVars>>
  \/ \E p \in Procs : TaskRelease(p) /\ UNCHANGED <<now, schedVars, rateVars, proxyVars, retryVars>>
  \/ PeriodicCleanup /\ UNCHANGED <<now, schedVars, rateVars, proxyVars, retryVars, taskPoolVars>>
  \/ Tick /\ UNCHANGED <<poolVars, schedVars, rateVars, proxyVars, retryVars, taskPoolVars>>

TaskPoolSpec == Init /\ [][TaskPoolNext]_vars

\* the scheduler's operations with task ids T and execute_task invocations E
SchedStep(T, E) ==
  \/ \E c \in Schedulers, t \in T, valid \in BOOLEAN :
       ScheduleTask(c, t, valid) /\ UNCHANGED <<poolVars, now, rateVars, proxyVars, retryVars, taskPoolVars>>
  \/ \E c \in Schedulers : ScheduleResume(c) /\ UNCHANGED <<poolVars, now, rateVars, proxyVars, retryVars, taskPoolVars>>
  \/ \E e \in E, t \in T, byJob \in BOOLEAN : ExecuteTask(e, t, byJob) /\ UNCHANGED <<rateVars, proxyVars, retryVars, taskPoolVars>>
  \/ \E e \in E : ExecRetry(e) /\ UNCHANGED <<rateVars, proxyVars, retryVars, taskPoolVars>>
  \/ \E e \in E : ExecLockGranted(e) /\ UNCHANGED <<rateVars, proxyVars, retryVars, taskPoolVars>>
  \/ \E e \in E : ExecBrowserWait(e)
  \/ \E e \in E : ExecBrowserAcquired(e) /\ UNCHANGED <<rateVars, proxyVars, retryVars, taskPoolVars>>
  \/ \E e \in E : ExecBrowserTimeout(e) /\ UNCHANGED <<rateVars, proxyVars, retryVars, taskPoolVars>>
  \/ \E e \in E, cleanupOk \in BOOLEAN : ExecReleaseBrowser(e, cleanupOk) /\ UNCHANGED <<rateVars, proxyVars, retryVars, taskPoolVars>>
  \/ Cleanup /\ UNCHANGED <<rateVars, proxyVars, retryVars, taskPoolVars>>
  \/ CleanupResume /\ UNCHANGED <<rateVars, proxyVars, retryVars, taskPoolVars>>

\* NumTasks task ids, NumExecs executions; every execution is over before
\* the pool's sweep would find its browser stale
SchedNext == SchedStep(Tasks, SchedExecs)

SchedSpec == Init /\ [][SchedNext]_vars

\* NumRaceExecs executions of one task id
RaceNext == SchedStep(RaceTasks, RaceExecs)

RaceSpec == Init /\ [][RaceNext]_vars

\* ------------------------------------------------ rate limiting scenario
\* one domain with a configuration of its own, checks and resets of its
\* keys, a store that may fail, and the clock
\* one task id, NumExecs executions and NumDupSchedulers callers of
\* schedule_task for that id
DupNext ==
  \/ SchedStep(RaceTasks, SchedExecs)
  \/ \E c \in DupSchedulers \ Schedulers, t \in RaceTasks, valid \in BOOLEAN :
       ScheduleTask(c, t, valid) /\ UNCHANGED <<poolVars, now, rateVars, proxyVars, retryVars, taskPoolVars>>
  \/ \E c \in DupSchedulers \ Schedulers : ScheduleResume(c) /\ UNCHANGED <<poolVars, now, rateVars, proxyVars, retryVars, taskPoolVars>>

DupSpec == Init /\ [][DupNext]_vars

\* one task and NumExecs executions, with the lifecycle calls of the callers
LifeNext ==
  \/ SchedStep(RaceTasks, SchedExecs)
  \/ \E op \in LifecycleOps, t \in RaceTasks : LifecycleCall(op, t) /\ UNCHANGED <<poolVars, now, rateVars, proxyVars, retryVars, taskPoolVars>>

LifeSpec == Init /\ [][LifeNext]_vars

\* executions of one task with the health loop of the browser manager
HealthNext ==
  \/ SchedStep(RaceTasks, SchedExecs)
  \/ \E b \in active_browsers, cleanupOk \in BOOLEAN :
       BrowserHealthFail(b, cleanupOk) /\ UNCHANGED <<rateVars, proxyVars, retryVars, taskPoolVars>>

HealthSpec == Init /\ [][HealthNext]_vars

RateSpecInit ==
  /\ PoolInit
  /\ SchedInit
  /\ RateInit
  /\ ProxyInit
  /\ RetryInit
  /\ TaskPoolInit
  /\ now = 0

RateNext ==
  \/ \E c \in Checkers, k \in Keys, reachable \in BOOLEAN :
       CheckRateLimit(c, k, reachable) /\ UNCHANGED <<poolVars, now, schedVars, proxyVars, retryVars, taskPoolVars>>
  \/ \E c \in Checkers : CheckReturn(c) /\ UNCHANGED <<poolVars, now, schedVars, proxyVars, retryVars, taskPoolVars>>
  \/ \E k \in Keys, reachable \in BOOLEAN :
       ResetRateLimit(k, reachable) /\ UNCHANGED <<poolVars, now, schedVars, proxyVars, retryVars, taskPoolVars>>
  \/ Tick /\ UNCHANGED <<poolVars, schedVars, rateVars, proxyVars, retryVars, taskPoolVars>>

RateSpec == RateSpecInit /\ [][RateNext]_vars

\* constructed with rate limits for the domain and no window: the default
\* window of 60 seconds applies
WindowSpecInit ==
  /\ PoolInit
  /\ SchedInit
  /\ rate_limits \in Limits
  /\ window_seconds = DEFAULT_WINDOW_SECONDS
  /\ burst_multipliers \in BurstPercents
  /\ RateIdle
  /\ ProxyInit
  /\ RetryInit
  /\ TaskPoolInit
  /\ now = 0

WindowSpec == WindowSpecInit /\ [][RateNext]_vars

\* ------------------------------------------------ starvation scenario
\* LivePoolSize resources, NumCallers acquire calls already made (each with
\* no resource_id or with an id of its own), every holder releases once,
\* nobody times out and nothing gets stale
\* ProxyService with its two background loops and its callers
ProxyNext ==
  \/ GetProxy /\ UNCHANGED <<poolVars, now, schedVars, rateVars, retryVars, taskPoolVars, report_cap>>
  \/ \E p \in Proxies, ok \in BOOLEAN : ContextExit(p, ok) /\ UNCHANGED <<poolVars, now, schedVars, rateVars, retryVars, taskPoolVars, report_cap>>
  \/ \E p \in Proxies : ReportFailure(p) /\ UNCHANGED <<poolVars, now, schedVars, rateVars, retryVars, taskPoolVars, report_cap>>
  \/ \E S \in SUBSET Proxies : ReportReplace(S) /\ UNCHANGED <<poolVars, now, schedVars, rateVars, retryVars, taskPoolVars, report_cap>>
  \/ HealthStart /\ UNCHANGED <<poolVars, now, schedVars, rateVars, retryVars, taskPoolVars, report_cap>>
  \/ \E ok \in BOOLEAN : HealthProbe(ok) /\ UNCHANGED <<poolVars, now, schedVars, rateVars, retryVars, taskPoolVars, report_cap>>
  \/ RotateStart /\ UNCHANGED <<poolVars, now, schedVars, rateVars, retryVars, taskPoolVars, report_cap>>
  \/ \E S \in SUBSET Proxies : RotateFill(S) /\ UNCHANGED <<poolVars, now, schedVars, rateVars, retryVars, taskPoolVars, report_cap>>

ProxySpec == Init /\ [][ProxyNext]_vars

\* the proxy service with time passing between its calls
ProxyClockNext ==
  \/ ProxyNext
  \/ Tick /\ UNCHANGED <<poolVars, schedVars, rateVars, proxyVars, retryVars, taskPoolVars>>

ProxyClockSpec == Init /\ [][ProxyClockNext]_vars

\* the proxy service with room for a second report per proxy
ReportInit ==
  /\ PoolInit
  /\ SchedInit
  /\ RateDefault
  /\ ProxyIdle
  /\ report_cap = MaxReports + 1
  /\ RetryInit
  /\ TaskPoolInit
  /\ now = 0

ReportSpec == ReportInit /\ [][ProxyNext]_vars

RetryNext ==
  \/ \E k \in WrapperKinds, n \in 0..MaxRetries, excs \in ExceptionTuples, factor \in BackoffFactors :
       WrapperCall(k, n, excs, factor) /\ UNCHANGED <<poolVars, now, schedVars, rateVars, proxyVars, taskPoolVars>>
  \/ \E o \in Outcomes : Invoke(o) /\ UNCHANGED <<poolVars, now, schedVars, rateVars, proxyVars, taskPoolVars>>
  \/ SleepOver /\ UNCHANGED <<poolVars, now, schedVars, rateVars, proxyVars, taskPoolVars>>
  \/ SleepCancelled /\ UNCHANGED <<poolVars, now, schedVars, rateVars, proxyVars, taskPoolVars>>
  \/ WrapperDone /\ UNCHANGED <<poolVars, now, schedVars, rateVars, proxyVars, taskPoolVars>>

RetrySpec == Init /\ [][RetryNext]_vars

LiveInit ==
  /\ semValue = LivePoolSize
  /\ semWaiters = <<>>
  /\ semGranted = {}
  /\ resources = {}
  /\ in_use = <<>>
  /\ ppc = [p \in Callers |-> IF p \in LiveCallers THEN "start" ELSE "idle"]
  /\ prid \in [Callers -> {NoneId} \cup {OwnId(p) : p \in Callers}]
  /\ \A p \in Callers : prid[p] \in (IF p \in LiveCallers THEN CallerIds(p) ELSE {NoneId})
  \* callers are interchangeable: the ones that pass no id come first, and
  \* a single caller without id shares it with nobody
  /\ \A p, q \in LiveCallers : (p < q /\ prid[q] = NoneId) => prid[p] = NoneId
  /\ Cardinality({p \in LiveCallers : prid[p] = NoneId}) # 1
  /\ held = [p \in Callers |-> 0]
  /\ relRet = [p \in Callers |-> TRUE]
  /\ SchedInit
  /\ RateDefault
  /\ ProxyInit
  /\ RetryInit
  /\ TaskPoolInit
  /\ now = 0

ReleasePrompt(p) ==
  /\ ppc[p] = "holding"
  /\ Release(p)

LiveStep(p) ==
  \/ AcquireSemaphore(p) /\ UNCHANGED <<now, schedVars, rateVars, proxyVars, retryVars, taskPoolVars>>
  \/ AcquireResume(p) /\ UNCHANGED <<now, schedVars, rateVars, proxyVars, retryVars, taskPoolVars>>
  \/ AcquireFinish(p) /\ UNCHANGED <<now, schedVars, rateVars, proxyVars, retryVars, taskPoolVars>>
  \/ ReleasePrompt(p) /\ UNCHANGED <<now, schedVars, rateVars, proxyVars, retryVars, taskPoolVars>>

LiveNext == \E p \in LiveCallers : LiveStep(p)

\* the event loop runs every ready task: each caller's enabled step is taken
LiveSpec == LiveInit /\ [][LiveNext]_vars /\ \A p \in LiveCallers : WF_vars(LiveStep(p))

\* ------------------------------------------------------------- properties
Holders == {p \in Procs : ppc[p] = "holding"}

\* C1: the number of callers that hold a resource (acquired, not yet
\* released) never exceeds the pool size
BoundedConcurrency == Cardinality(Holders) <= PoolSize

\* units of the semaphore that are free or reserved for a woken waiter
AvailableSlots == semValue + Cardinality(semGranted)

AcquireTimedOut(p) == ppc[p] = "waiting" /\ ppc'[p] = "timedout"

\* C5: an acquire that times out leaves the number of available capacity
\* slots as it was: it keeps no slot and frees no slot it did not take
TimeoutKeepsSlots ==
  [][\A p \in Procs : AcquireTimedOut(p) => AvailableSlots' = AvailableSlots]_vars

ReleaseCalled(p) == ppc[p] \in {"holding", "released"} /\ ppc'[p] # ppc[p]

\* C6: release with a resource_id that is not in the in-use map returns
\* false and changes neither the idle set, the in-use map nor the semaphore
UnknownReleaseIsNoOp ==
  [][\A p \in Procs :
       (ReleaseCalled(p) /\ prid[p] \notin DOMAIN in_use)
         => (/\ relRet'[p] = FALSE
             /\ UNCHANGED <<resources, in_use, semValue, semWaiters, semGranted>>)]_vars

\* C6 witness: a first release that found its id gone although no other
\* caller used that id (the sweep reclaimed it), and a second release
ReleaseAfterSweepSeen ==
  \E p \in Procs :
    /\ ppc[p] = "done"
    /\ relRet[p] = FALSE
    /\ \A q \in Procs \ {p} : prid[q] # prid[p]

\* C7: in the starvation scenario every one of the acquire calls succeeds
AllAcquiresSucceed == <>(\A p \in LiveCallers : held[p] # 0)

\* C7 witness: all callers got a resource, and all released it
AllServed == \A p \in LiveCallers : held[p] # 0 /\ ppc[p] = "released"

\* C8: two callers never hold the same resource object at the same time
ExclusiveOwnership ==
  \A p, q \in Procs :
    (p # q /\ ppc[p] = "holding" /\ ppc[q] = "holding") => held[p] # held[q]

\* the executions of task t that marked it running and have not finished
InFlight(t) == {e \in Execs : etask[e] = t /\ epc[e] = "browser"}

\* C2: for every task id at most one execute_task execution is in flight
\* (between marking the task running and finishing) at any time
OneExecutionPerTask == \A t \in Tasks : Cardinality(InFlight(t)) <= 1

BrowserReleased(e) == epc[e] = "release_browser" /\ epc'[e] = "done"

\* C3: an execution that acquired a browser has returned it when it ends:
\* release_browser succeeds, the handle has left the active map and the
\* pool has one more available slot
BrowserReturned ==
  [][\A e \in Execs :
       BrowserReleased(e)
         => (/\ brRet'[e] = TRUE
             /\ held[e] \notin active_browsers'
             /\ AvailableSlots' = AvailableSlots + 1)]_vars

RunningTasks == {t \in Tasks : task_status[t] = "running"}

\* C4: the number of tasks whose status is running never exceeds
\* max_instances
RunningWithinCeiling == Cardinality(RunningTasks) <= MaxInstances

\* a check gets the answer of the store
Evaluated(c) == rpc[c] = "idle" /\ rpc'[c] = "replied" /\ ~rresult'[c].raised

\* the checks the store admitted in the current window of key k
Admitted(k) == IF KeyLive(k) THEN redis_value[k] ELSE 0

\* C9: in one window of a key exactly the first
\* int(limit * (1 + burst_multiplier)) checks are allowed and every further
\* one is rejected; the first counted check opens the window, later checks
\* do not extend it, and after it has elapsed checks are counted anew
WindowAdmitsBurstLimit ==
  [][\A c \in Checkers :
       Evaluated(c)
         => LET k == rkey'[c]
                allowed == rresult'[c].allowed = 1
            IN /\ allowed <=> (Admitted(k) < BurstLimit(rate_limits, burst_multipliers))
               /\ KeyLive(k) => redis_expire'[k] = redis_expire[k]
               /\ (~KeyLive(k) /\ allowed) => redis_expire'[k] = now + window_seconds]_vars

\* a check whose store call raised returns
StoreFailed(c) == rpc[c] = "replied" /\ rresult[c].raised /\ rpc'[c] = "idle"

\* C10 as stated: when the store call raises, the check allows the request
\* and records the error
StoreErrorFailsOpen ==
  [][\A c \in Checkers :
       StoreFailed(c)
         => (rret'.allowed = TRUE /\ rate_limit_errors' = rate_limit_errors + 1)]_vars

\* C10: when the store call raises, the check rejects the request
\* (allowed false, remaining 0, retry after DEFAULT_WINDOW_SECONDS), counts
\* the error in rate_limit_errors and leaves the counters of the store and
\* the other metrics alone
StoreErrorFailsClosed ==
  [][\A c \in Checkers :
       StoreFailed(c)
         => (/\ rret'.allowed = FALSE
             /\ rret'.remaining = 0
             /\ rret'.backoff = DEFAULT_WINDOW_SECONDS
             /\ rate_limit_errors' = rate_limit_errors + 1
             /\ UNCHANGED <<rate_limit_hits, rate_limit_misses, redis_value, redis_expire>>)]_vars

\* C10 witness: a check returned the tuple of the except clause although the
\* store never rejected a check: its store call raised
StoreErrorSeen ==
  /\ rate_limit_errors > 0
  /\ rate_limit_hits = 0
  /\ rret.allowed = FALSE
  /\ rret.backoff = DEFAULT_WINDOW_SECONDS
  /\ \A c \in Checkers : rpc[c] = "idle"

\* ------------------------------------------------------------ ProxyService

\* a tracked proxy that passes both tests of get_proxy
Qualifies(p) ==
  /\ proxy_metrics[p].tracked
  /\ circuit_breakers[p] < PROXY_CIRCUIT_BREAKER_THRESHOLD
  /\ 100 * proxy_metrics[p].health_score[1] >= PROXY_SUCCESS_THRESHOLD * proxy_metrics[p].health_score[2]

\* C11: every proxy an attempt of get_proxy returns is tracked, its breaker
\* is not open and its health score is at least the success threshold; an
\* attempt made when no tracked proxy qualifies returns no proxy: the call
\* raises, at once or after its retries
ReturnsQualifiedOrRaises ==
  [][GetProxy =>
       /\ \A p \in Proxies : gret' = p => Qualifies(p)
       /\ (\A p \in Proxies : ~Qualifies(p)) => gret' \in {ProxyError, NoProxy}
       /\ (gattempt = GET_PROXY_MAX_RETRIES /\ \A p \in Proxies : ~Qualifies(p)) => gret' = ProxyError]_vars

\* C11 witness: get_proxy returned the second proxy of the dict because the
\* first one, still tracked, is under the threshold
UnhealthySkipped ==
  /\ Len(proxy_order) = 2
  /\ ~HealthOk(proxy_metrics[proxy_order[1]].health_score)
  /\ gret = proxy_order[2]
  /\ proxy_order[2] \in contexts
  /\ proxy_metrics[proxy_order[2]].success_count = 0
  /\ proxy_metrics[proxy_order[2]].failure_count = 0

\* C12: a proxy whose breaker opened in report_failure is returned by no
\* get_proxy attempt while its recovery_timeout has not elapsed, and every
\* pass of the health check still probes it, so that a probe that succeeds
\* can make it eligible again
TrippedExcludedAndProbed ==
  [][/\ \A p \in tripped : now < PROXY_RECOVERY_TIMEOUT => ~(GetProxy /\ gret' = p)
     /\ HealthStart => \A p \in tripped : p \in Range(hlist')]_vars

\* ------------------------------------------------------------ task lifecycle

\* C13: pause_task returns true on a Scheduled task and makes it Paused,
\* resume_task returns true on a Paused task and makes it Scheduled,
\* cancel_task returns true on a task that is neither Completed nor unknown
\* and removes it from the active tasks; every other call returns false and
\* leaves the task as it is
LifecycleLegal ==
  [][\A op \in LifecycleOps, t \in RaceTasks :
       LifecycleCall(op, t) =>
         LET from == CASE op = "pause_task" -> {"scheduled"}
                       [] op = "resume_task" -> {"paused"}
                       [] op = "cancel_task" -> {"scheduled", "running", "paused", "failed"}
             to == CASE op = "pause_task" -> "paused"
                     [] op = "resume_task" -> "scheduled"
                     [] op = "cancel_task" -> "absent"
         IN IF task_status[t] \in from
            THEN lret'[3] = "true" /\ task_status' = [task_status EXCEPT ![t] = to]
            ELSE lret'[3] = "false" /\ UNCHANGED task_status]_vars

\* ------------------------------------------------------------ task states

\* C14: a task whose status is completed keeps that status in every later
\* step, until the shutdown of the scheduler drops the task: a further
\* execute_task for it does not make it running again
CompletedStaysCompleted ==
  [][\A t \in Tasks :
       task_status[t] = "completed" => task_status'[t] \in {"completed", "absent"}]_vars

\* ------------------------------------------------------------ schedule_task

\* the step in which the schedule_task call of c for task t, made with a
\* valid configuration, ends
ScheduleEnds(c, t) ==
  \/ spc[c] = "idle" /\ ScheduleTask(c, t, TRUE) /\ spc'[c] = "idle"
  \/ spc[c] = "lockwait" /\ stask[c] = t /\ ScheduleResume(c)

\* C15: a schedule_task call that finds its id among the active tasks
\* returns false and leaves the status of the task, the order of the active
\* tasks and the jobs as they are; a call returns true only when the id was
\* not there, and then it is scheduled: of the calls that compete for one id
\* exactly one registers it
DuplicateRejected ==
  [][\A c \in DupSchedulers, t \in RaceTasks :
       ScheduleEnds(c, t) =>
         /\ task_status[t] # "absent"
              => sret'[c] = "false" /\ UNCHANGED <<task_status, task_order, jobs>>
         /\ sret'[c] = "true"
              => task_status[t] = "absent" /\ task_status'[t] = "scheduled" /\ t \in jobs'
         /\ (task_status[t] = "absent" /\ cbState # "open") => sret'[c] = "true"]_vars

\* C15 witness: the second call queued for the task lock and has just been
\* handed it, to find the task that the first call registered meanwhile
OneOfTwoRegistered ==
  /\ sret[1] = "true"
  /\ spc[1] = "idle"
  /\ spc[2] = "lockwait"
  /\ lockOwner[slock[2]] = SchedulerCtx(2)
  /\ stask[1] = stask[2]
  /\ task_status[stask[1]] = "scheduled"
  /\ cbState = "closed"

\* C16 as stated: schedule_task with a configuration that fails validation
\* returns false and registers no task, lock or job
InvalidConfigReturnsFalse ==
  [][\A c \in Schedulers, t \in RaceTasks :
       ScheduleTask(c, t, FALSE)
         => (/\ sret'[c] = "false"
             /\ UNCHANGED <<task_status, task_order, task_locks, lockOwner, lockQueue, jobs>>)]_vars

\* C16: schedule_task with a configuration that fails validation raises to
\* the caller, after the ValueError of each of its attempts, and registers
\* no task, lock or job
InvalidConfigRaises ==
  [][\A c \in Schedulers, t \in RaceTasks :
       ScheduleTask(c, t, FALSE)
         => (/\ sret'[c] = "raised"
             /\ spc'[c] = "idle"
             /\ UNCHANGED <<task_status, task_order, task_locks, lockOwner, lockQueue, jobs>>)]_vars

\* C16 witness: a call with an invalid configuration raised while no task,
\* lock or job exists
InvalidConfigSeen ==
  /\ sret[1] = "raised"
  /\ spc[1] = "idle"
  /\ \A t \in Tasks : task_status[t] = "absent" /\ task_locks[t] = 0
  /\ jobs = {}
  /\ task_order = <<>>
  /\ cbState = "closed"

\* C17: a schedule_task call made with a valid configuration while the
\* global circuit breaker is open returns false at once and adds no task to
\* the active tasks, no job and no lock
OpenBreakerRejects ==
  [][\A c \in Schedulers, t \in RaceTasks :
       (cbState = "open" /\ ScheduleTask(c, t, TRUE))
         => (/\ sret'[c] = "false"
             /\ spc'[c] = "idle"
             /\ UNCHANGED <<task_status, task_order, task_locks, lockOwner, lockQueue, jobs>>)]_vars

\* C17 witness: the breaker is open, the task id is free, and the call made
\* for it returned false without registering it
OpenBreakerRejected ==
  /\ cbState = "open"
  /\ cbFailures = FAILURE_THRESHOLD
  /\ sret[1] = "false"
  /\ spc[1] = "idle"
  /\ \A t \in Tasks : task_status[t] = "absent" /\ task_locks[t] = 0
  /\ jobs = {}

\* ------------------------------------------------------------ the ceiling

\* the tasks that are scheduled or running
ActiveCount == Cardinality({u \in Tasks : task_status[u] \in {"scheduled", "running"}})

\* the step in which a schedule_task call for a new task id, made with a
\* valid configuration and past the breaker, ends while MaxInstances tasks
\* are scheduled or running
ScheduleEndsAtCeiling(c, t) ==
  /\ ScheduleEnds(c, t)
  /\ task_status[t] = "absent"
  /\ spc[c] = "idle" => cbState # "open"
  /\ ActiveCount >= MaxInstances

RejectedAtCeiling ==
  [][\A c \in Schedulers, t \in Tasks :
       ScheduleEndsAtCeiling(c, t)
         => (/\ sret'[c] = "false"
             /\ UNCHANGED <<task_status, task_order, jobs>>)]_vars

\* ------------------------------------------------------------ failed tasks

\* C20: when get_browser raises in the last attempt of an execution, the
\* task is failed, it is not left running, and the failure is counted by the
\* global circuit breaker
FailureMarksFailed ==
  [][\A e \in SchedExecs :
       (ExecBrowserTimeout(e) /\ epc'[e] = "done")
         => (/\ task_status'[etask[e]] = "failed"
             /\ cbFailures' = cbFailures + 1)]_vars

\* ------------------------------------------------------------ order of acquisition

\* C21: an execution acquires its browser only after a rate-limit check was
\* allowed and a proxy was obtained from get_proxy
RateThenProxyThenBrowser ==
  [][\A e \in SchedExecs :
       ExecBrowserAcquired(e)
         => (/\ rate_limit_misses > 0
             /\ rret.allowed = TRUE
             /\ gret \in Proxies
             /\ contexts # {})]_vars

\* ------------------------------------------------------------ global breaker

\* C22: the outcome of every execution is written to the global circuit
\* breaker: an execution that succeeds resets the count of failures, so that
\* only consecutive failures open the breaker
SuccessResetsBreaker ==
  [][\A e \in SchedExecs : ExecBrowserAcquired(e) => cbFailures' = 0]_vars

\* ------------------------------------------------------------ cleanup

\* the step in which a cleanup() call returns
CleanupReturns == (Cleanup \/ CleanupResume) /\ cpc' = "idle" /\ cret' = "returned"

\* C23: when cleanup() returns, no task is left among the active tasks and
\* no task lock is left, also for the tasks whose job could not be removed
CleanupEmptiesMaps ==
  [][CleanupReturns
       => (/\ \A t \in Tasks : task_status'[t] = "absent" /\ task_locks'[t] = 0
           /\ task_order' = <<>>)]_vars

\* C23 witness: cleanup() returned and left nothing, after an execution of a
\* task had run to its end
CleanupAfterExecution ==
  /\ cret = "returned"
  /\ cpc = "idle"
  /\ schedState = "shutdown"
  /\ \A t \in Tasks : task_status[t] = "absent" /\ task_locks[t] = 0
  /\ \E e \in SchedExecs : epc[e] = "done" /\ eret[e] = "returned"

\* C24: the cleanup() of the scheduler invokes BrowserManager.cleanup, once
ShutsDownBrowserManager ==
  [][CleanupReturns => brCleanups' = brCleanups + 1]_vars

\* C25: a cleanup() call made after a cleanup that ran to its end returns
\* without raising and leaves the scheduler shut down, with no task and no
\* lock
CleanupIdempotent ==
  [][(Cleanup /\ schedState = "shutdown")
       => (/\ cret' = "returned"
           /\ schedState' = "shutdown"
           /\ \A t \in Tasks : task_status'[t] = "absent" /\ task_locks'[t] = 0)]_vars

\* C26: once cleanup() has started, no task id is added to the active tasks
NoScheduleAfterCleanup ==
  [][\A t \in Tasks :
       (schedState \in {"paused", "shutdown"} /\ task_status[t] = "absent")
         => task_status'[t] = "absent"]_vars

\* ------------------------------------------------------------ retries

UnregisteredNotRetried ==
  [][\A e \in SchedExecs, t \in Tasks :
       (ExecuteTask(e, t, FALSE) /\ task_locks[t] = 0)
         => (/\ epc'[e] = "done"
             /\ eret'[e] = "raised"
             /\ eattempt'[e] = 1)]_vars

\* C29: the wrapped function is invoked at most max_retries + 1 times and
\* never again after an invocation that succeeded; a wrapper call that
\* returns returns the result of that invocation; and when max_retries + 1
\* invocations have all raised, the wrapper raises the exception of the last
InvokedAtMostOncePerAttempt ==
  /\ Len(calls) <= max_retries + 1
  /\ \A k \in 1..Len(calls) : calls[k].ok => k = Len(calls)
  /\ (wret.kind = "returned")
       => (/\ calls # <<>>
           /\ calls[Len(calls)].ok
           /\ wret.val = calls[Len(calls)].val
           /\ wret.from = Len(calls))
  /\ (wpc \in {"done", "idle"} /\ Len(calls) = max_retries + 1 /\ ~calls[Len(calls)].ok)
       => (/\ wret.kind = "raised"
           /\ wret.exc = calls[Len(calls)].exc
           /\ wret.from = max_retries + 1)

\* C29 witness: a call that returned the result of its last allowed invocation
\* after every earlier one had raised
LastAttemptSucceeded ==
  /\ wpc = "done"
  /\ max_retries = MaxRetries
  /\ Len(calls) = max_retries + 1
  /\ wret.kind = "returned"
  /\ wret.val = calls[Len(calls)].val
  /\ \A k \in 1..(Len(calls) - 1) : ~calls[k].ok

\* C30: the proxy a get_proxy call returns has the highest health score of
\* the proxies that qualify, and no qualifying proxy with the same score was
\* used less recently
BestThenLeastRecentlyUsed ==
  [][(GetProxy /\ HealthyProxies # <<>>)
       => \A q \in Range(HealthyProxies) :
            LET mp == proxy_metrics[gret']
                mq == proxy_metrics[q]
            IN /\ ~HealthGreater(mq.health_score, mp.health_score)
               /\ ~HealthGreater(mp.health_score, mq.health_score)
                    => mp.last_used <= mq.last_used]_vars

\* ------------------------------------------------ third batch of properties

\* C31: no resource is in the idle set and recorded in the in-use map at the
\* same time
IdleAndInUseDisjoint ==
  \A k \in DOMAIN in_use : in_use[k].resource \notin resources

\* C32: when cleanup() returns no execution of a task is still under way:
\* none waits for a retry, for a task lock or for its browser, so that no
\* attempt runs after the return
NoExecutionOutlivesCleanup ==
  [][CleanupReturns => \A e \in SchedExecs : epc'[e] \in {"idle", "done"}]_vars

\* C33: the pool lock is free whenever an operation of the proxy service is
\* suspended on a health probe or on a request to the upstream provider, so
\* that a get_proxy call never has to wait for it
PoolLockFreeDuringIO == pool_lock = "free"

\* C34: an acquire call takes one capacity slot when it gets past the
\* semaphore, and when the creation of its resource raises, the error reaches
\* the caller and exactly that slot is given back
CreationFailureReturnsSlot ==
  [][\A p \in Procs :
       /\ (ppc[p] # "acquired" /\ ppc'[p] = "acquired") => AvailableSlots' = AvailableSlots - 1
       /\ AcquireCreateFails(p)
            => (/\ AvailableSlots' = AvailableSlots + 1
                /\ ppc'[p] = "failed"
                /\ in_use' = in_use
                /\ resources' = resources)]_vars

\* C34 witness: an acquire call on the untouched pool failed in the creation
\* of its resource and the pool has all its slots
CreationFailedPoolFull ==
  \E p \in Procs :
    /\ ppc[p] = "failed"
    /\ \A q \in Procs \ {p} : ppc[q] = "idle"
    /\ semValue = PoolSize
    /\ semGranted = {}

\* C35: a browser whose liveness probe failed in the health loop leaves the
\* active map and is not put back into the idle set of the pool
FailedProbeDiscards ==
  [][\A b \in active_browsers, cleanupOk \in BOOLEAN :
       BrowserHealthFail(b, cleanupOk)
         => (b \notin active_browsers' /\ b \notin resources')]_vars

\* C36: the backoff returned with a rejection is never longer than the time
\* left until the window of the bucket ends
RetryAfterWithinWindow ==
  [][\A c \in Checkers :
       (/\ CheckReturn(c)
        /\ ~rresult[c].raised
        /\ rresult[c].allowed = 0
        /\ BurstLimit(rate_limits, burst_multipliers) # 0
        /\ KeyLive(rkey[c]))
         => rret'.backoff <= redis_expire[rkey[c]] - now]_vars

\* the step is a success or failure report for proxy p: the exit of its usage
\* context, report_failure, or the health probe of p
ReportStep(p) ==
  \/ \E ok \in BOOLEAN : ContextExit(p, ok)
  \/ ReportFailure(p)
  \/ (hlist # <<>> /\ Head(hlist) = p /\ \E ok \in BOOLEAN : HealthProbe(ok))

\* C37: a report for a proxy that is tracked and stays tracked adds one to
\* exactly one of its two counters and leaves the health score equal to
\* success_count / (success_count + failure_count), between 0 and 1; nothing
\* else changes the counters of a proxy that stays in the pool
ReportsCountedOnce ==
  [][\A p \in Proxies :
       LET m == proxy_metrics[p]
           n == proxy_metrics'[p]
       IN /\ (ReportStep(p) /\ m.tracked /\ n.tracked)
               => (/\ \/ (n.success_count = m.success_count + 1 /\ n.failure_count = m.failure_count)
                      \/ (n.success_count = m.success_count /\ n.failure_count = m.failure_count + 1)
                   /\ n.health_score = <<n.success_count, n.success_count + n.failure_count>>
                   /\ 0 <= n.health_score[1]
                   /\ n.health_score[1] <= n.health_score[2])
          /\ (~ReportStep(p) /\ m.tracked /\ n.tracked /\ n # NewMetrics)
               => (n.success_count = m.success_count /\ n.failure_count = m.failure_count)]_vars

\* C37 witness: a proxy with one counted success and one counted failure
SuccessAndFailureCounted ==
  \E p \in Proxies :
    /\ proxy_metrics[p].tracked
    /\ proxy_metrics[p].success_count = 1
    /\ proxy_metrics[p].failure_count = 1
    /\ proxy_metrics[p].health_score = <<1, 2>>

\* C38: of the TaskPool.acquire calls for one task id, at most one has
\* returned True without the task having been released since
OneSlotPerTask ==
  \A t \in PoolTasks : Cardinality({p \in Procs : tpc[p] = "holding" /\ ttask[p] = t}) <= 1

\* C39: once every caller of the scenario has acquired and released, every
\* release has returned True and the pool has all its capacity again
ReleasesRestoreCapacity ==
  (\A p \in LiveCallers : ppc[p] = "released")
    => (/\ \A p \in LiveCallers : relRet[p] = TRUE
        /\ semValue = LivePoolSize
        /\ semGranted = {}
        /\ in_use = <<>>)

\* an attempt of execute_task for task t by execution e begins: the first
\* one of a call or one that tenacity repeats
AttemptBegins(e, t) ==
  \/ \E byJob \in BOOLEAN : ExecuteTask(e, t, byJob)
  \/ etask[e] = t /\ ExecRetry(e)

\* C40: an attempt of execute_task that is refused because the breaker is
\* open, or that names a task id the scheduler does not know, records no
\* breaker failure
RefusedAttemptNotCounted ==
  [][\A e \in SchedExecs, t \in Tasks :
       (AttemptBegins(e, t) /\ (cbState = "open" \/ task_locks[t] = 0))
          => cbFailures' = cbFailures]_vars
====
